---------------------------- MODULE Spec2Model ----------------------------
(***************************************************************************)
(* A model of the book import scripts that write paired tag / description  *)
(* points into the two Qdrant collections tags_vecs and desc_vecs:         *)
(*   import_books_enhanced.py     (class BookImporter, script "enhanced")  *)
(*   import_cleaned_books_1000.py (sequential script, script "1000")       *)
(*   import_cleaned_books.py      (thread pool script, script "threaded")  *)
(* Every HTTP request is one step; its response is chosen by the           *)
(* environment.  A request the store answers with a failure changes        *)
(* nothing in the store.                                                   *)
(***************************************************************************)
EXTENDS Integers, Sequences, FiniteSets, TLC

(***************************************************************************)
(* Bounds of the model.                                                    *)
(***************************************************************************)
\* the longest input file, in records
MaxBooks == 3
\* the batch size of a run (--batch-size of the enhanced script; the other
\* two scripts fix BATCH_SIZE = 10, scaled down here with the input)
BatchSize == 2
\* points a collection may hold beyond one scroll page before setup
MaxExtra == 1

\* the longest input file and the largest batch size of the runs that only
\* differ in how the records are split
MaxRecords == 12

MaxBatchSize == 10

\* the most tags of a record of the runs that look at the tag text
MaxTags == 2

\* the longest input file of the runs that keep the thread pool busy, one
\* record per batch
MaxPoolBooks == 4

\* uuid.uuid4() draws one of the values 0..MaxUuid
MaxUuid == 1

\* the processes that run setup_collections at the same time
NumCallers == 2

(***************************************************************************)
(* Program constants.                                                      *)
(***************************************************************************)
MAX_RETRIES == 3

\* MAX_WORKERS of import_cleaned_books.py
MAX_WORKERS == 3
SCROLL_LIMIT == 10000

None == "None"

CollectionNames == <<"tags_vecs", "desc_vecs">>

Collections == {"tags_vecs", "desc_vecs"}

(***************************************************************************)
(* Text.  A Python str the scripts take apart or build is a sequence of    *)
(* one-character strings; a str they only pass on is a TLA+ string.        *)
(***************************************************************************)
HexDigit == <<"0", "1", "2", "3", "4", "5", "6", "7", "8", "9",
              "a", "b", "c", "d", "e", "f">>

\* str(n) of a natural number, as the f-string f"bk_{book_index}" renders it
RECURSIVE Decimal(_)
Decimal(n) ==
    IF n < 10 THEN <<HexDigit[n + 1]>>
    ELSE Decimal(n \div 10) \o <<HexDigit[(n % 10) + 1]>>

\* the code point of a character of a key (ASCII)
CharCode(c) ==
    CASE c = "b" -> 98
      [] c = "k" -> 107
      [] c = "_" -> 95
      [] c = "0" -> 48
      [] c = "1" -> 49
      [] c = "2" -> 50
      [] c = "3" -> 51
      [] c = "4" -> 52
      [] c = "5" -> 53
      [] c = "6" -> 54
      [] c = "7" -> 55
      [] c = "8" -> 56
      [] c = "9" -> 57

RECURSIVE HexOfChars(_)
HexOfChars(s) ==
    IF s = <<>> THEN <<>>
    ELSE <<HexDigit[(CharCode(Head(s)) \div 16) + 1],
           HexDigit[(CharCode(Head(s)) % 16) + 1]>> \o HexOfChars(Tail(s))

\* hashlib.md5(book_id.encode()).hexdigest(): 32 hex digits that depend on
\* the characters of the key alone.  The library digest stands here as a
\* function without collisions on the keys of the model (at most 16
\* characters): the hex of the characters, zero-padded.
md5_hexdigest(key) ==
    LET h == HexOfChars(key)
    IN  h \o [k \in 1..(32 - Len(h)) |-> "0"]

\* ', '.join(tags)
RECURSIVE JoinComma(_)
JoinComma(tags) ==
    IF tags = <<>> THEN <<>>
    ELSE IF Len(tags) = 1 THEN <<tags[1]>>
    ELSE <<tags[1], ", ">> \o JoinComma(Tail(tags))

\* dict.get(field, default)
Get(book, field, default) ==
    IF field \in DOMAIN book THEN book[field] ELSE default

\* tags_text of process_book / process_books_batch: the category prefix
\* (the literal "分類：") and the joined tags, or the title prefix (the
\* literal "書名：") and the title
TagsText(book) ==
    LET tags == Get(book, "tags", <<>>)
        title == Get(book, "title", "")
    IN  IF tags # <<>> THEN <<"category:">> \o JoinComma(tags)
        ELSE <<"title:", title>>

\* the vector the embedding service returns for a prompt: a non-empty list
EmbeddingOf(text) == <<"embedding of">> \o text

\* what a get_embedding call has returned: nothing yet (kind "pending"), a
\* vector ("value"), None ("None"), or it raised ("raised")
NoResult == [kind |-> "pending", vector |-> <<>>]

(***************************************************************************)
(* Input.  A record is a JSON object: a function from its keys.            *)
(***************************************************************************)
BookWithId ==
    [book_id |-> <<"b", "1">>, title |-> "T1", description |-> "D1",
     tags |-> <<"t1", "t2">>]

BookWithoutId ==
    [title |-> "T2", description |-> "D2", tags |-> <<>>]

RecordPool == {BookWithId, BookWithoutId}

\* an element of the input list that is not a JSON object, such as null or
\* a string: it has no key and no get method.  It stands in the model as
\* the function with the one key "json", which no record carries.
NotAnObject == [json |-> "null"]

IsObject(book) == "json" \notin DOMAIN book

\* a record with every key the threaded script subscripts
FullBook ==
    [book_id |-> <<"b", "1">>, title |-> "T1", author |-> "A1",
     description |-> "D1", tags |-> <<"t1", "t2">>, language |-> "zh"]

Catalogs == UNION {[1..n -> RecordPool] : n \in 0..MaxBooks}

\* a slice that takes the element at its end index as well
SliceInclusive(books, i, size) ==
    SubSeq(books, i + 1,
           IF i + size + 1 < Len(books) THEN i + size + 1 ELSE Len(books))

\* books[i:i + batch_size], i counted from 0
Slice(books, i, size) ==
    SubSeq(books, i + 1, IF i + size < Len(books) THEN i + size ELSE Len(books))

VARIABLES
    script,           \* which script runs
    run,              \* 1: the first run of the script, 2: a run after it
    input,            \* the records of the input file
    clear_existing,   \* --clear-existing of this run
    store,            \* the vector store: per collection exists, points, legacy
    pc,               \* where the run is
    ret,              \* what import_books returned: None, TRUE, FALSE
    ci,               \* the collection index of a loop over the collections
    point_ids,        \* clear_collection: the scrolled page
    books,            \* the loaded records
    i,                \* the batch's start offset
    j,                \* the index in the batch
    which,            \* the embedding process_book waits for: tags, desc
    attempt,          \* get_embedding: the loop variable
    emb_ret,          \* what get_embedding returned
    tags_vector,      \* process_book: the tag vector
    tags_points,      \* process_batch: the tag points
    desc_points,      \* process_batch: the description points
    successful_count, \* process_batch: the records with both points
    stats,            \* BookImporter.stats
    summary,          \* whether print_final_report printed the summary
    requests,         \* requests the current get_embedding call issued
    sleeps,           \* time.sleep(1) calls of the current get_embedding call
    emb_resp,         \* the response to the last embedding request
    emb_failed,       \* indices of this run's records an embedding call failed for
    issued,           \* kinds of request issued in this run
    faults,           \* whether any request or the file read failed so far
    half_written,     \* whether a batch's tag upsert was applied and its description upsert failed
    upsert_failed,    \* whether an upsert of this run failed
    after_first,      \* the point identifiers per collection when the first run ended
    uncaught,         \* whether an exception left the function that called get_embedding
    cleared,          \* the collections clear_collection returned True for in this run
    callers,          \* two processes in setup_collections at once: where each is
    workers,          \* thread pool script: the state of each batch's task
    total_success,    \* thread pool script: main's total_success
    total_error,      \* thread pool script: main's total_error
    phases,           \* the phases this run has entered, in order
    visited,          \* the batches this run has begun, in order
    verify_failed,    \* whether a request of verify_collections failed in this run
    advertised,       \* whether the embedding service lists EMBEDDING_MODEL among its models
    created,          \* the collections create_collection returned True for in this run
    batch_size,       \* the records per batch: --batch-size, BATCH_SIZE
    posts             \* the POST /api/embeddings requests of this run that were counted

vars == <<script, run, input, clear_existing, store, pc, ret, ci, point_ids,
          books, i, j, which, attempt, emb_ret, tags_vector, tags_points,
          desc_points, successful_count, stats, summary, requests, sleeps,
          emb_resp, emb_failed, issued, faults, half_written, upsert_failed,
          after_first, uncaught, cleared, callers, workers, total_success,
          total_error, phases, visited, verify_failed, advertised, created,
          batch_size, posts>>

(***************************************************************************)
(* Identifiers.                                                            *)
(***************************************************************************)
\* the 32 hex digits cut 8-4-4-4-12
UuidFormat(hash_hex) ==
    SubSeq(hash_hex, 1, 8) \o <<"-">> \o SubSeq(hash_hex, 9, 12) \o <<"-">>
    \o SubSeq(hash_hex, 13, 16) \o <<"-">> \o SubSeq(hash_hex, 17, 20)
    \o <<"-">> \o SubSeq(hash_hex, 21, 32)

\* an identifier that also depends on the run it is derived in, as a salted
\* digest or a generated identifier would
book_id_to_uuid_per_run(book_id) ==
    UuidFormat(md5_hexdigest(book_id \o <<"_">> \o Decimal(run)))

\* book_id_to_uuid of the enhanced and the 1000 script
book_id_to_uuid(book_id) ==
    UuidFormat(md5_hexdigest(book_id))

(***************************************************************************)
(* The vector store.  A collection holds its points by identifier; legacy  *)
(* counts further points, written before the run by someone else, whose    *)
(* identifiers the run never learns.                                       *)
(***************************************************************************)
NoPoints == [id \in {} |-> None]

FreshStore ==
    [c \in Collections |-> [exists |-> FALSE, points |-> NoPoints, legacy |-> 0]]

PointIds(c) == DOMAIN store[c].points

PointCount(c) == Cardinality(PointIds(c)) + store[c].legacy

IdsOf(points) == {points[k].id : k \in DOMAIN points}

\* the point of the request that the store keeps for id: the last one
LastWithId(points, id) ==
    LET k == CHOOSE m \in DOMAIN points :
                 /\ points[m].id = id
                 /\ \A n \in DOMAIN points : points[n].id = id => n <= m
    IN  [vector |-> points[k].vector, payload |-> points[k].payload]

\* PUT /collections/{collection}/points, accepted: every point of the
\* request is written under its identifier, over the point that was there
StoreUpsert(old, points) ==
    [id \in (DOMAIN old) \cup IdsOf(points) |->
        IF id \in IdsOf(points) THEN LastWithId(points, id) ELSE old[id]]

\* the responses a request can meet besides the expected one
HttpFailures == {"status_not_200", "exception"}

\* the expected responses
Expected == {"ok", "answered"}

(***************************************************************************)
(* BookImporter.__init__ and the start of import_books.                    *)
(***************************************************************************)
NoStats ==
    [total_books |-> 0, processed_books |-> 0, successful_uploads |-> 0,
     failed_uploads |-> 0, embedding_calls |-> 0, start_time |-> None]

\* the phase a run is in, by the numbered steps of import_books: 1 the
\* service check, 2 the collection setup, 3 loading, 5 the batch loop up to
\* the final report, 6 the verification; then the return
PhaseOf(at) ==
    CASE at \in {"check_qdrant", "check_ollama"} -> "ServiceCheck"
      [] at \in {"setup_exists", "clear_scroll", "clear_delete", "create"}
            -> "CollectionSetup"
      [] at = "load" -> "Loading"
      [] at = "verify" -> "Verifying"
      [] at = "done" -> "Done"
      [] at = "failed" -> "Failed"
      [] OTHER -> "Importing"

\* the run has moved: a phase it was not in is entered
TrackPhase ==
    phases' = IF PhaseOf(pc') = phases[Len(phases)] THEN phases
              ELSE Append(phases, PhaseOf(pc'))

\* a process has just been started
Started ==
    /\ ret = "None"
    /\ ci = 1
    /\ point_ids = [known |-> {}, legacy |-> 0]
    /\ books = <<>>
    /\ i = 0
    /\ j = 0
    /\ which = None
    /\ attempt = 0
    /\ emb_ret = NoResult
    /\ tags_vector = <<>>
    /\ tags_points = <<>>
    /\ desc_points = <<>>
    /\ successful_count = 0
    /\ stats = NoStats
    /\ summary = FALSE
    /\ requests = 0
    /\ sleeps = 0
    /\ emb_resp = None
    /\ posts = 0
    /\ emb_failed = {}
    /\ issued = {}
    /\ upsert_failed = FALSE
    /\ uncaught = FALSE
    /\ cleared = {}
    /\ created = {}
    /\ phases = <<PhaseOf(pc)>>
    /\ visited = <<>>
    /\ verify_failed = FALSE

\* the step that starts a process
Start ==
    /\ ret' = "None"
    /\ ci' = 1
    /\ point_ids' = [known |-> {}, legacy |-> 0]
    /\ books' = <<>>
    /\ i' = 0
    /\ j' = 0
    /\ which' = None
    /\ attempt' = 0
    /\ emb_ret' = NoResult
    /\ tags_vector' = <<>>
    /\ tags_points' = <<>>
    /\ desc_points' = <<>>
    /\ successful_count' = 0
    /\ stats' = NoStats
    /\ summary' = FALSE
    /\ requests' = 0
    /\ sleeps' = 0
    /\ emb_resp' = None
    /\ posts' = 0
    /\ emb_failed' = {}
    /\ issued' = {}
    /\ upsert_failed' = FALSE
    /\ uncaught' = FALSE
    /\ cleared' = {}
    /\ created' = {}
    /\ phases' = <<"ServiceCheck">>
    /\ visited' = <<>>
    /\ verify_failed' = FALSE

\* no concurrent scenario is running
NoTasks ==
    /\ callers = <<>>
    /\ workers = <<>>
    /\ total_success = 0
    /\ total_error = 0

\* the enhanced script is started on a store without collections
Init ==
    /\ script = "enhanced"
    /\ batch_size = BatchSize
    /\ advertised \in BOOLEAN
    /\ run = 1
    /\ input \in Catalogs
    /\ clear_existing \in BOOLEAN
    /\ store = FreshStore
    /\ pc = "check_qdrant"
    /\ Started
    /\ NoTasks
    /\ faults = FALSE
    /\ half_written = FALSE
    /\ after_first = [c \in Collections |-> {}]

idVars == <<script, run, input, advertised, batch_size>>

\* the state of the concurrent scenarios, which a sequential script leaves alone
tVars == <<callers, workers, total_success, total_error>>

\* what the run has gone through so far
logVars == <<phases, visited, verify_failed>>

runVars == <<idVars, tVars, uncaught, cleared, created, logVars>>

setupVars == <<ci, point_ids>>

embVars == <<which, attempt, emb_ret, requests, sleeps, emb_resp, posts>>

batchVars == <<j, tags_vector, tags_points, desc_points, successful_count>>

histVars == <<half_written, upsert_failed, after_first, emb_failed>>

\* the scripts that import batch after batch in one thread
Sequential == {"enhanced", "1000"}

\* what the script hands back where import_books returns value: the 1000
\* script's main returns nothing
Return(value) == IF script = "enhanced" THEN value ELSE "None"

\* a fatal failure that does not end the run: the batch loop is entered
AbortIgnored == "batch"

\* return False (return, in the 1000 script) of import_books after a fatal
\* failure: the run is over
Abort == "failed"

\* The environment.  The first run may meet any response to any request;
\* the run after it is the replay of an import: once its collections are
\* set up it meets no failure.
Responses(all) == IF run = 1 THEN all ELSE all \cap Expected

(***************************************************************************)
(* check_services.                                                         *)
(***************************************************************************)
\* GET /collections
CheckQdrant ==
    /\ script \in Sequential
    /\ pc = "check_qdrant"
    /\ \E resp \in Responses({"ok"} \cup HttpFailures) :
        /\ issued' = issued \cup {"list_collections"}
        /\ faults' = (faults \/ resp # "ok")
        /\ pc' = IF resp = "ok" THEN "check_ollama" ELSE Abort
        /\ ret' = IF resp = "ok" THEN ret ELSE Return("False")
    /\ UNCHANGED <<idVars, tVars, uncaught, cleared, created, visited,
                   verify_failed, clear_existing, store, setupVars, books, i,
                   stats, summary, embVars, batchVars, histVars>>
    /\ TrackPhase

\* GET /api/tags, then the search for EMBEDDING_MODEL among the models
CheckOllama ==
    /\ script = "enhanced"
    /\ pc = "check_ollama"
    /\ \E resp \in Responses({"ok", "malformed"} \cup HttpFailures) :
        LET found == resp = "ok" /\ advertised
        IN  /\ issued' = issued \cup {"list_models"}
            /\ faults' = (faults \/ ~found)
            /\ pc' = IF found THEN "setup_exists" ELSE Abort
            /\ ret' = IF found THEN ret ELSE "False"
    /\ UNCHANGED <<idVars, tVars, uncaught, cleared, created, visited,
                   verify_failed, clear_existing, store, setupVars, books, i,
                   stats, summary, embVars, batchVars, histVars>>
    /\ TrackPhase

(***************************************************************************)
(* setup_collections, with check_collection_exists, clear_collection and   *)
(* create_collection.                                                      *)
(***************************************************************************)
\* the step of setup_collections after a collection is done: the next
\* collection, or return True and go on to load the file
NextCollection(at) ==
    IF at < Len(CollectionNames) THEN "setup_exists" ELSE "load"

\* an existence check that takes any answer for "exists"
check_collection_exists_any_answer(resp, name) ==
    resp = "answered"

\* check_collection_exists: GET /collections/{name}; an exception counts as
\* "does not exist"
check_collection_exists(resp, name) ==
    resp = "answered" /\ store[name].exists

SetupCheckExists ==
    /\ pc = "setup_exists"
    /\ \E resp \in ({"answered"} \cup HttpFailures) :
        LET exists == check_collection_exists(resp, CollectionNames[ci])
        IN  /\ issued' = issued \cup {"get_collection"}
            /\ faults' = (faults \/ resp # "answered")
            /\ pc' = IF exists
                     THEN IF clear_existing THEN "clear_scroll"
                          ELSE NextCollection(ci)
                     ELSE "create"
            /\ ci' = IF exists /\ ~clear_existing /\ ci < Len(CollectionNames)
                     THEN ci + 1 ELSE ci
    /\ UNCHANGED <<idVars, tVars, uncaught, cleared, created, visited,
                   verify_failed, clear_existing, store, ret, point_ids,
                   books, i, stats, summary, embVars, batchVars, histVars>>
    /\ TrackPhase

\* the pages a scroll with "limit": SCROLL_LIMIT can return: SCROLL_LIMIT
\* points of the collection, or all of them when it holds fewer
ScrollPages(name, limit) ==
    LET total == PointCount(name)
        size == IF total < limit THEN total ELSE limit
    IN  {[known |-> k, legacy |-> size - Cardinality(k)] :
            k \in {s \in SUBSET PointIds(name) :
                      /\ size - Cardinality(s) >= 0
                      /\ size - Cardinality(s) <= store[name].legacy}}

PageSize(page) == Cardinality(page.known) + page.legacy

\* clear_collection, first request: POST .../points/scroll
ClearScroll ==
    /\ pc = "clear_scroll"
    /\ \E resp \in ({"ok", "malformed"} \cup HttpFailures) :
        /\ issued' = issued \cup {"scroll"}
        /\ faults' = (faults \/ resp # "ok")
        /\ IF resp = "ok"
           THEN \E page \in ScrollPages(CollectionNames[ci], SCROLL_LIMIT) :
                    /\ point_ids' = page
                    /\ pc' = IF PageSize(page) = 0
                             THEN NextCollection(ci) ELSE "clear_delete"
                    /\ ci' = IF PageSize(page) = 0 /\ ci < Len(CollectionNames)
                             THEN ci + 1 ELSE ci
                    /\ cleared' = IF PageSize(page) = 0
                                  THEN cleared \cup {CollectionNames[ci]}
                                  ELSE cleared
                    /\ ret' = ret
           ELSE /\ pc' = Abort
                /\ ret' = "False"
                /\ UNCHANGED <<ci, point_ids, cleared>>
    /\ UNCHANGED <<idVars, tVars, uncaught, created, visited, verify_failed,
                   clear_existing, store, books, i, stats, summary, embVars,
                   batchVars, histVars>>
    /\ TrackPhase

\* POST .../points/delete, accepted: the listed points are gone
StoreDelete(coll, page) ==
    [coll EXCEPT !.points = [id \in (DOMAIN coll.points) \ page.known |->
                                coll.points[id]],
                 !.legacy = coll.legacy - page.legacy]

\* clear_collection, second request: POST .../points/delete
ClearDelete ==
    /\ pc = "clear_delete"
    /\ \E resp \in ({"ok", "status_not_ok"} \cup HttpFailures) :
        /\ issued' = issued \cup {"delete"}
        /\ faults' = (faults \/ resp # "ok")
        /\ IF resp = "ok"
           THEN /\ store' = [store EXCEPT ![CollectionNames[ci]] =
                                StoreDelete(@, point_ids)]
                /\ pc' = NextCollection(ci)
                /\ ci' = IF ci < Len(CollectionNames) THEN ci + 1 ELSE ci
                /\ cleared' = cleared \cup {CollectionNames[ci]}
                /\ ret' = ret
           ELSE /\ pc' = Abort
                /\ ret' = "False"
                /\ UNCHANGED <<store, ci, cleared>>
    /\ UNCHANGED <<idVars, tVars, uncaught, created, visited, verify_failed,
                   clear_existing, point_ids, books, i, stats, summary,
                   embVars, batchVars, histVars>>
    /\ TrackPhase

\* PUT /collections/{name}: the store creates a collection that does not
\* exist and rejects the request for one that does
CreateResponses(name) ==
    IF store[name].exists THEN {"status_not_200"}
    ELSE {"ok", "status_not_ok"} \cup HttpFailures

\* create_collection
CreateCollection ==
    /\ pc = "create"
    /\ \E resp \in CreateResponses(CollectionNames[ci]) :
        /\ issued' = issued \cup {"create"}
        /\ faults' = (faults \/ resp # "ok")
        /\ IF resp = "ok"
           THEN /\ store' = [store EXCEPT ![CollectionNames[ci]].exists = TRUE]
                /\ created' = created \cup {CollectionNames[ci]}
                /\ pc' = NextCollection(ci)
                /\ ci' = IF ci < Len(CollectionNames) THEN ci + 1 ELSE ci
                /\ ret' = ret
           ELSE /\ pc' = Abort
                /\ ret' = "False"
                /\ UNCHANGED <<store, ci, created>>
    /\ UNCHANGED <<idVars, tVars, uncaught, cleared, visited, verify_failed,
                   clear_existing, point_ids, books, i, stats, summary,
                   embVars, batchVars, histVars>>
    /\ TrackPhase


(***************************************************************************)
(* import_books: loading, and the statistics of the run.                   *)
(***************************************************************************)
\* a loop that resumes after as many records as tags_vecs already holds,
\* as a script that took the store for its checkpoint would
RangeStartResumed == Cardinality(PointIds("tags_vecs"))

\* range(0, len(books), batch_size): every run begins at the first record
RangeStart == 0

\* steps 3 and 4 of import_books: read the file, set total_books and
\* start_time.  clear_existing is not read after setup_collections.
LoadFile ==
    /\ script \in Sequential
    /\ pc = "load"
    /\ \E resp \in Responses({"ok", "missing", "unparseable"}) :
        /\ faults' = (faults \/ resp # "ok")
        /\ IF resp = "ok"
           THEN /\ books' = input
                /\ stats' = [stats EXCEPT !.total_books = Len(input),
                                          !.start_time = "set"]
                /\ pc' = "batch"
                /\ ret' = ret
           ELSE /\ pc' = Abort
                /\ ret' = Return("False")
                /\ UNCHANGED <<books, stats>>
    /\ i' = RangeStart
    /\ clear_existing' = FALSE
    /\ UNCHANGED <<idVars, tVars, uncaught, cleared, created, visited,
                   verify_failed, store, setupVars, summary, issued, embVars,
                   batchVars, histVars>>
    /\ TrackPhase

\* the batch import_books is at: books[i:i + batch_size]
Batch == Slice(books, i, batch_size)

\* the record process_batch is at, and its index in the input
Book == books[i + j + 1]

BookIndex == i + j

\* the head of the batch loop: the next batch, whose process_batch call
\* starts with empty lists, or the end of the loop
BeginBatch ==
    /\ script \in Sequential
    /\ pc = "batch"
    /\ IF i < Len(books)
       THEN /\ pc' = "book"
            /\ j' = 0
            /\ tags_points' = <<>>
            /\ desc_points' = <<>>
            /\ successful_count' = 0
            /\ tags_vector' = <<>>
            /\ visited' = Append(visited, i)
       ELSE /\ pc' = "report"
            /\ UNCHANGED <<batchVars, visited>>
    /\ UNCHANGED <<idVars, tVars, uncaught, cleared, created, phases,
                   verify_failed, clear_existing, store, ret, setupVars,
                   books, i, stats, summary, issued, faults, embVars,
                   histVars>>

(***************************************************************************)
(* get_embedding.                                                          *)
(***************************************************************************)
\* range(MAX_RETRIES) with one attempt too many
RetryRangeOneMore == 0..MAX_RETRIES

\* range(MAX_RETRIES)
RetryRange == 0..(MAX_RETRIES - 1)

\* the key of a record: book.get("book_id", f"bk_{book_index}")
BookKey(book, book_index) ==
    Get(book, "book_id", <<"b", "k", "_">> \o Decimal(book_index))

\* the prompt of the call process_book waits for
Prompt(book, what) ==
    IF what = "tags" THEN TagsText(book)
    ELSE <<Get(book, "description", "")>>

\* what get_embedding does when every attempt has failed: return None in
\* the enhanced script, raise in the 1000 script
Exhausted ==
    IF script = "1000" THEN [kind |-> "raised", vector |-> <<>>]
    ELSE [kind |-> "None", vector |-> <<>>]

\* the entry of get_embedding(text): the call counter, then attempt 0
CallGetEmbedding(what) ==
    /\ which' = what
    /\ attempt' = 0
    /\ requests' = 0
    /\ sleeps' = 0
    /\ emb_ret' = NoResult
    /\ emb_resp' = None
    /\ posts' = posts
    /\ pc' = "embed"

\* a backoff after every failed attempt, the last one included
BackoffAlways(slept, att) == slept + 1

\* if attempt < MAX_RETRIES - 1: time.sleep(1), in both branches of a
\* failed attempt
Backoff(slept, att) == IF att < MAX_RETRIES - 1 THEN slept + 1 ELSE slept

\* one pass of the retry loop: POST /api/embeddings, return the vector on
\* status 200, otherwise sleep unless this was the last attempt; an
\* observer may count the request in posts
EmbedRequest(counted) ==
    /\ pc = "embed"
    /\ attempt \in RetryRange
    /\ \E resp \in Responses({"ok", "malformed"} \cup HttpFailures) :
        /\ issued' = issued \cup {"embed"}
        /\ faults' = (faults \/ resp # "ok")
        /\ requests' = requests + 1
        /\ posts' = IF counted THEN posts + 1 ELSE posts
        /\ emb_resp' = resp
        /\ IF resp = "ok"
           THEN /\ emb_ret' = [kind |-> "value",
                               vector |-> EmbeddingOf(Prompt(Book, which))]
                /\ pc' = "embed_ret"
                /\ UNCHANGED <<attempt, sleeps>>
           ELSE /\ sleeps' = Backoff(sleeps, attempt)
                /\ attempt' = attempt + 1
                /\ IF attempt + 1 \in RetryRange
                   THEN pc' = "embed" /\ emb_ret' = emb_ret
                   ELSE pc' = "embed_ret" /\ emb_ret' = Exhausted
        /\ emb_failed' = IF resp # "ok" /\ attempt + 1 \notin RetryRange
                         THEN emb_failed \cup {BookIndex} ELSE emb_failed
    /\ UNCHANGED <<runVars, clear_existing, store, ret, setupVars, books, i,
                   stats, summary, which, batchVars, half_written,
                   upsert_failed, after_first>>

\* the pass of the retry loop, its requests not counted
EmbedAttempt == EmbedRequest(FALSE)

(***************************************************************************)
(* process_book and process_batch.                                         *)
(***************************************************************************)
\* a counter that takes two for a call
CountCallTwice(st) == [st EXCEPT !.embedding_calls = @ + 2]

\* self.stats['embedding_calls'] += 1, the first statement of get_embedding
CountCall(st) == [st EXCEPT !.embedding_calls = @ + 1]

\* the first statements of process_book, up to the call for the tag vector
ProcessBook ==
    /\ script = "enhanced"
    /\ pc = "book"
    /\ stats' = CountCall(stats)
    /\ CallGetEmbedding("tags")
    /\ UNCHANGED <<runVars, clear_existing, store, ret, setupVars, books, i,
                   summary, issued, faults, batchVars, histVars>>

\* full_payload of process_book; "zh" stands for the default language, the
\* literal "中文"
full_payload(book, book_index) ==
    [book_id |-> BookKey(book, book_index),
     title |-> Get(book, "title", ""),
     author |-> Get(book, "author", ""),
     description |-> Get(book, "description", ""),
     tags |-> Get(book, "tags", <<>>),
     language |-> Get(book, "language", "zh"),
     cover_url |-> Get(book, "cover_url", ""),
     type |-> "book"]

\* a tag point whose payload and identifier take book_id without the
\* positional fallback
TagsPointRawKey(book, book_index, vector) ==
    [id |-> book_id_to_uuid(Get(book, "book_id", <<>>)),
     vector |-> vector,
     payload |-> [full_payload(book, book_index) EXCEPT
                     !.book_id = Get(book, "book_id", <<>>)]]

\* tags_point of process_book
TagsPoint(book, book_index, vector) ==
    [id |-> book_id_to_uuid(BookKey(book, book_index)),
     vector |-> vector,
     payload |-> full_payload(book, book_index)]

\* a description point keyed by the record's position instead of its key
DescPointByPosition(book, book_index, vector) ==
    [id |-> book_id_to_uuid(<<"b", "k", "_">> \o Decimal(book_index)),
     vector |-> vector,
     payload |-> [book_id |-> BookKey(book, book_index), type |-> "book_desc"]]

\* desc_point of process_book
DescPoint(book, book_index, vector) ==
    [id |-> book_id_to_uuid(BookKey(book, book_index)),
     vector |-> vector,
     payload |-> [book_id |-> BookKey(book, book_index), type |-> "book_desc"]]

\* a list that takes a point only when it holds none under its identifier
AppendPointOnce(points, point) ==
    IF \E k \in DOMAIN points : points[k].id = point.id THEN points
    ELSE Append(points, point)

\* tags_points.append(...) and desc_points.append(...)
AppendPoint(points, point) == Append(points, point)

\* the failure branch of process_batch that forgets the count
CountFailedNot(st) == st

\* the failure branch of process_batch: stats['failed_uploads'] += 1
CountFailed(st) == [st EXCEPT !.failed_uploads = @ + 1]

\* process_batch after process_book returned: the loop goes on to the next
\* record of the batch, or the call returns to import_books
AfterBook ==
    /\ j' = j + 1
    /\ pc' = IF j + 1 < Len(Batch) THEN "book" ELSE "batch_result"

\* get_embedding's frame is gone once process_book has read its result
ForgetCall ==
    /\ which' = None
    /\ attempt' = 0
    /\ requests' = 0
    /\ sleeps' = 0
    /\ emb_ret' = NoResult
    /\ emb_resp' = None
    /\ posts' = posts

\* process_book returned (None, None)
BookFailed ==
    /\ ForgetCall
    /\ stats' = CountFailed(stats)
    /\ emb_failed' = emb_failed
    /\ AfterBook
    /\ tags_vector' = <<>>
    /\ UNCHANGED <<tags_points, desc_points, successful_count>>

\* the tag vector is back: give up on the record, or call for the
\* description vector
AfterTagsEmbedding ==
    /\ script = "enhanced"
    /\ pc = "embed_ret"
    /\ which = "tags"
    /\ IF emb_ret.kind = "None"
       THEN BookFailed
       ELSE /\ tags_vector' = emb_ret.vector
            /\ stats' = CountCall(stats)
            /\ CallGetEmbedding("desc")
            /\ UNCHANGED <<j, tags_points, desc_points, successful_count,
                           emb_failed>>
    /\ UNCHANGED <<runVars, clear_existing, store, ret, setupVars, books, i,
                   summary, issued, faults, half_written, upsert_failed,
                   after_first>>

\* the description vector is back: give up on the record, or build the two
\* points, which process_batch appends to its lists
AfterDescEmbedding ==
    /\ script = "enhanced"
    /\ pc = "embed_ret"
    /\ which = "desc"
    /\ IF emb_ret.kind = "None"
       THEN BookFailed
       ELSE /\ tags_points' = AppendPoint(tags_points,
                            TagsPoint(Book, BookIndex, tags_vector))
            /\ desc_points' = AppendPoint(desc_points,
                            DescPoint(Book, BookIndex, emb_ret.vector))
            /\ successful_count' = successful_count + 1
            /\ tags_vector' = <<>>
            /\ AfterBook
            /\ ForgetCall
            /\ UNCHANGED <<stats, emb_failed>>
    /\ UNCHANGED <<runVars, clear_existing, store, ret, setupVars, books, i,
                   summary, issued, faults, half_written, upsert_failed,
                   after_first>>


(***************************************************************************)
(* import_books: the two uploads of a batch and the statistics.            *)
(***************************************************************************)
\* a failed batch that ends the run
ContinueReturns == "failed"

\* continue, in the batch loop of import_books and of main: a batch without
\* points or with a rejected upload is left, the loop goes on
Continue == "batch"

\* a loop that uploads the descriptions whatever the tag upload did
TagsRejectedGoesOn == "upsert_desc"

\* the tag upload of a batch was rejected: continue, the description
\* upload of the batch is not attempted
TagsRejected == Continue

\* a test that lets every batch through to the uploads
NoValidResultNever(tags, descs) == FALSE

\* if not tags_points or not desc_points
NoValidResult(tags, descs) == tags = <<>> \/ descs = <<>>

\* process_batch has returned: a batch without points is skipped
BatchResult ==
    /\ script = "enhanced"
    /\ pc = "batch_result"
    /\ IF NoValidResult(tags_points, desc_points)
       THEN pc' = Continue /\ i' = i + batch_size
       ELSE pc' = "upsert_tags" /\ i' = i
    /\ UNCHANGED <<runVars, clear_existing, store, ret, setupVars, books,
                   stats, summary, issued, faults, embVars, batchVars,
                   histVars>>

\* the responses to PUT /collections/{name}/points: a collection that does
\* not exist cannot accept points
UpsertResponses(name) ==
    IF store[name].exists THEN {"ok", "status_not_ok"} \cup HttpFailures
    ELSE HttpFailures

\* upsert_to_qdrant("tags_vecs", tags_points); on failure, continue
UpsertTags ==
    /\ script = "enhanced"
    /\ pc = "upsert_tags"
    /\ IF tags_points = <<>>
       THEN /\ pc' = "upsert_desc"
            /\ UNCHANGED <<store, i, issued, faults, upsert_failed>>
       ELSE \E resp \in Responses(UpsertResponses("tags_vecs")) :
            /\ issued' = issued \cup {"upsert"}
            /\ faults' = (faults \/ resp # "ok")
            /\ IF resp = "ok"
               THEN /\ store' = [store EXCEPT !["tags_vecs"].points =
                                    StoreUpsert(@, tags_points)]
                    /\ pc' = "upsert_desc"
                    /\ UNCHANGED <<i, upsert_failed>>
               ELSE /\ pc' = TagsRejected
                    /\ i' = i + batch_size
                    /\ upsert_failed' = TRUE
                    /\ store' = store
    /\ UNCHANGED <<runVars, clear_existing, ret, setupVars, books, stats,
                   summary, embVars, batchVars, half_written, after_first,
                   emb_failed>>

\* a failure branch that takes the tag points of the batch back
RolledBack(st, points) ==
    [st EXCEPT !["tags_vecs"].points =
        [id \in (DOMAIN @) \ IdsOf(points) |-> @[id]]]

\* the failure branch of the description upload: a message and continue,
\* no request to tags_vecs
AfterDescFailure(st, points) == st

\* upsert_to_qdrant("desc_vecs", desc_points); on failure, continue
UpsertDesc ==
    /\ script = "enhanced"
    /\ pc = "upsert_desc"
    /\ IF desc_points = <<>>
       THEN /\ pc' = "update_stats"
            /\ UNCHANGED <<store, i, issued, faults, upsert_failed,
                           half_written>>
       ELSE \E resp \in Responses(UpsertResponses("desc_vecs")) :
            /\ issued' = issued \cup {"upsert"}
            /\ faults' = (faults \/ resp # "ok")
            /\ IF resp = "ok"
               THEN /\ store' = [store EXCEPT !["desc_vecs"].points =
                                    StoreUpsert(@, desc_points)]
                    /\ pc' = "update_stats"
                    /\ UNCHANGED <<i, upsert_failed, half_written>>
               ELSE /\ pc' = Continue
                    /\ i' = i + batch_size
                    /\ upsert_failed' = TRUE
                    /\ half_written' = TRUE
                    /\ store' = AfterDescFailure(store, tags_points)
    /\ UNCHANGED <<runVars, clear_existing, ret, setupVars, books, stats,
                   summary, embVars, batchVars, after_first, emb_failed>>

\* the nominal size of a batch
BatchLenNominal == batch_size

\* len(batch)
BatchLen == Len(Batch)

\* both uploads succeeded: processed_books and successful_uploads grow,
\* print_progress, the pause, and on to the next batch
UpdateStats ==
    /\ script = "enhanced"
    /\ pc = "update_stats"
    /\ stats' = [stats EXCEPT !.processed_books = @ + BatchLen,
                              !.successful_uploads = @ + successful_count]
    /\ i' = i + batch_size
    /\ pc' = "batch"
    /\ UNCHANGED <<runVars, clear_existing, store, ret, setupVars, books,
                   summary, issued, faults, embVars, batchVars, histVars>>

(***************************************************************************)
(* print_final_report and verify_collections.                              *)
(***************************************************************************)
\* print_final_report prints unless start_time is None
FinalReport ==
    /\ script = "enhanced"
    /\ pc = "report"
    /\ summary' = (stats.start_time # None)
    /\ pc' = "verify"
    /\ ci' = 1
    /\ UNCHANGED <<idVars, tVars, uncaught, cleared, created, visited,
                   verify_failed, clear_existing, store, ret, point_ids,
                   books, i, stats, issued, faults, embVars, batchVars,
                   histVars>>
    /\ TrackPhase

\* a result that depends on the verification
ImportResultChecked(query_failed) ==
    IF query_failed THEN "False" ELSE "True"

\* return True, the last statement of import_books: verify_collections
\* returns nothing that import_books could look at
ImportResult(query_failed) == "True"

\* verify_collections: one GET per collection inside one try; an exception
\* ends the loop.  Then import_books returns True.
VerifyCollection ==
    /\ script \in Sequential
    /\ pc = "verify"
    /\ \E resp \in Responses({"ok"} \cup HttpFailures) :
        /\ issued' = issued \cup {"get_collection"}
        /\ faults' = (faults \/ resp # "ok")
        /\ verify_failed' = (verify_failed \/ resp # "ok")
        /\ IF resp # "exception" /\ ci < Len(CollectionNames)
           THEN /\ ci' = ci + 1
                /\ UNCHANGED <<pc, ret>>
           ELSE /\ pc' = "done"
                /\ ret' = Return(ImportResult(verify_failed'))
                /\ ci' = ci
    /\ UNCHANGED <<idVars, tVars, uncaught, cleared, created, visited,
                   clear_existing, store, point_ids, books, i, stats, summary,
                   embVars, batchVars, histVars>>
    /\ TrackPhase

(***************************************************************************)
(* The script is run a second time over the same file and store.           *)
(***************************************************************************)
RunAgain ==
    /\ script \in Sequential
    /\ pc \in {"done", "failed", "crashed"}
    /\ run = 1
    /\ run' = 2
    /\ after_first' = [c \in Collections |-> PointIds(c)]
    /\ clear_existing' \in BOOLEAN
    /\ pc' = "check_qdrant"
    /\ Start
    /\ UNCHANGED <<script, input, advertised, batch_size, store, faults,
                   half_written, tVars>>

Next ==
    \/ CheckQdrant
    \/ CheckOllama
    \/ SetupCheckExists
    \/ ClearScroll
    \/ ClearDelete
    \/ CreateCollection
    \/ LoadFile
    \/ BeginBatch
    \/ ProcessBook
    \/ EmbedAttempt
    \/ AfterTagsEmbedding
    \/ AfterDescEmbedding
    \/ BatchResult
    \/ UpsertTags
    \/ UpsertDesc
    \/ UpdateStats
    \/ FinalReport
    \/ VerifyCollection
    \/ RunAgain

Spec == Init /\ [][Next]_vars


C2_SecondRunChangesNoIdentifier ==
    (run = 2 /\ ~faults) =>
        \A c \in Collections :
            (pc = "done" \/ "delete" \notin issued) =>
                /\ PointIds(c) = after_first[c]
                /\ PointCount(c) = Cardinality(after_first[c])

\* the second of two failure-free runs over three records, two of them
\* under one key, is done
C2_Witness ==
    /\ run = 2
    /\ pc = "done"
    /\ ~faults
    /\ stats.successful_uploads = 3
    /\ Cardinality(PointIds("tags_vecs")) = 2
    /\ Cardinality(PointIds("desc_vecs")) = 2

\* C4: a get_embedding call issues at most MAX_RETRIES requests; it goes on
\* only after a failure; it returns a vector exactly when its last request
\* was answered, all requests before that one having failed; and it
\* reports failure exactly after MAX_RETRIES failed requests.
C4_RetryBound ==
    /\ requests <= MAX_RETRIES
    /\ pc = "embed" => (requests = attempt /\ requests < MAX_RETRIES)
    /\ pc = "embed_ret" =>
        IF emb_ret.kind = "value"
        THEN /\ emb_resp = "ok"
             /\ requests = attempt + 1
             /\ emb_ret.vector = EmbeddingOf(Prompt(Book, which))
        ELSE /\ emb_resp # "ok"
             /\ requests = MAX_RETRIES
             /\ attempt = MAX_RETRIES

\* the endpoint failed twice and answered the third request: the call
\* returned the vector
C4_Witness ==
    /\ pc = "embed_ret"
    /\ emb_ret.kind = "value"
    /\ requests = MAX_RETRIES
    /\ attempt = MAX_RETRIES - 1

\* the indices, in the input, of the records of the current batch
BatchIndices == [k \in 1..Len(Batch) |-> i + k - 1]

\* the records of the current batch no embedding call failed for, in order
Survivors == SelectSeq(BatchIndices, LAMBDA x : x \notin emb_failed)

\* the identifier the record at index x of the input stands under
ExpectedId(x) == book_id_to_uuid(BookKey(books[x + 1], x))

\* C6: when process_batch returns, its two lists hold one point for each
\* record of the batch no embedding call failed for, in order, its count
\* is the batch size less the failed records, and failed_uploads has grown
\* by one for each failed record.
C6_PartialFailureIsolation ==
    /\ pc # "embed_ret" => stats.failed_uploads = Cardinality(emb_failed)
    /\ pc = "batch_result" =>
        /\ Len(tags_points) = Len(Survivors)
        /\ Len(desc_points) = Len(Survivors)
        /\ \A k \in 1..Len(Survivors) :
            /\ tags_points[k].id = ExpectedId(Survivors[k])
            /\ desc_points[k].id = ExpectedId(Survivors[k])
        /\ successful_count =
            Len(Batch) - Cardinality({x \in emb_failed : x >= i})

\* a batch of two records has been processed; the embedding of the first
\* failed and the second has its two points
C6_Witness ==
    /\ pc = "batch_result"
    /\ Len(Batch) = 2
    /\ i \in emb_failed
    /\ (i + 1) \notin emb_failed
    /\ successful_count = 1
    /\ Len(tags_points) = 1

\* C7, as claimed: when the store rejected an upsert of a batch, the run
\* still completes, the batch adds nothing to the succeeded count, and the
\* final summary shows a failed count that is not zero.
C7_RejectedBatchCountedFailed ==
    (pc = "done" /\ upsert_failed) =>
        /\ ret = "True"
        /\ summary
        /\ stats.successful_uploads < stats.total_books
        /\ stats.failed_uploads > 0

\* C8: the two lists of process_batch are paired: equal lengths, and at
\* every position the same identifier and the same book_id in the payload.
C8_PointsPaired ==
    /\ Len(tags_points) = Len(desc_points)
    /\ \A k \in 1..Len(tags_points) :
        /\ tags_points[k].id = desc_points[k].id
        /\ tags_points[k].payload.book_id = desc_points[k].payload.book_id
        /\ tags_points[k].payload.type = "book"
        /\ desc_points[k].payload.type = "book_desc"

\* a batch of two records, one with and one without book_id, has its two
\* points each
C8_Witness ==
    /\ pc = "batch_result"
    /\ Len(tags_points) = 2
    /\ tags_points[1].id # tags_points[2].id


(***************************************************************************)
(* import_cleaned_books_1000.py: main and process_books_batch.  Its        *)
(* total_processed is kept in stats.processed_books and its                *)
(* total_uploaded in stats.successful_uploads.                             *)
(***************************************************************************)
\* GET /api/tags; the 1000 script does not look for the model
K_CheckOllama ==
    /\ script = "1000"
    /\ pc = "check_ollama"
    /\ \E resp \in Responses({"ok"} \cup HttpFailures) :
        /\ issued' = issued \cup {"list_models"}
        /\ faults' = (faults \/ resp # "ok")
        /\ pc' = IF resp = "ok" THEN "load" ELSE Abort
    /\ UNCHANGED <<idVars, tVars, uncaught, cleared, created, visited,
                   verify_failed, clear_existing, store, ret, setupVars,
                   books, i, stats, summary, embVars, batchVars, histVars>>
    /\ TrackPhase

\* the first statements of the try block of process_books_batch, up to
\* the call for the tag vector
K_ProcessBook ==
    /\ script = "1000"
    /\ pc = "book"
    /\ CallGetEmbedding("tags")
    /\ UNCHANGED <<runVars, clear_existing, store, ret, setupVars, books, i,
                   stats, summary, issued, faults, batchVars, histVars>>

\* an exception of get_embedding that nothing catches before main
CaughtInMain == "main"

\* the function whose except clause catches what get_embedding raises: the
\* try block of process_books_batch encloses both calls
CaughtIn == "process_books_batch"

\* get_embedding raised: the except clause of process_books_batch goes on
\* with the next record; were it missing, the except clause of main would
\* go on with the next batch
K_Raised ==
    /\ ForgetCall
    /\ tags_vector' = <<>>
    /\ IF CaughtIn = "process_books_batch"
       THEN /\ AfterBook
            /\ UNCHANGED <<i, uncaught>>
       ELSE /\ pc' = "batch"
            /\ i' = i + batch_size
            /\ j' = j
            /\ uncaught' = TRUE
    /\ UNCHANGED <<tags_points, desc_points, successful_count>>

\* the tag vector is back, or get_embedding raised
K_AfterTagsEmbedding ==
    /\ script = "1000"
    /\ pc = "embed_ret"
    /\ which = "tags"
    /\ IF emb_ret.kind = "raised"
       THEN K_Raised
       ELSE /\ tags_vector' = emb_ret.vector
            /\ CallGetEmbedding("desc")
            /\ UNCHANGED <<i, j, tags_points, desc_points, successful_count,
                           uncaught>>
    /\ UNCHANGED <<idVars, tVars, cleared, created, logVars, clear_existing,
                   store, ret, setupVars, books, stats, summary, issued,
                   faults, histVars>>

\* the description vector is back, or get_embedding raised; with both
\* vectors the two points are appended
K_AfterDescEmbedding ==
    /\ script = "1000"
    /\ pc = "embed_ret"
    /\ which = "desc"
    /\ IF emb_ret.kind = "raised"
       THEN K_Raised
       ELSE /\ tags_points' = AppendPoint(tags_points,
                            TagsPoint(Book, BookIndex, tags_vector))
            /\ desc_points' = AppendPoint(desc_points,
                            DescPoint(Book, BookIndex, emb_ret.vector))
            /\ successful_count' = successful_count + 1
            /\ tags_vector' = <<>>
            /\ AfterBook
            /\ ForgetCall
            /\ UNCHANGED <<i, uncaught>>
    /\ UNCHANGED <<idVars, tVars, cleared, created, logVars, clear_existing,
                   store, ret, setupVars, books, stats, summary, issued,
                   faults, histVars>>

\* process_books_batch has returned: total_processed grows, and a batch
\* with points goes on to the uploads
K_BatchResult ==
    /\ script = "1000"
    /\ pc = "batch_result"
    /\ stats' = [stats EXCEPT !.processed_books = @ + successful_count]
    /\ IF tags_points # <<>> /\ desc_points # <<>>
       THEN pc' = "upsert_tags" /\ i' = i
       ELSE pc' = "batch" /\ i' = i + batch_size
    /\ UNCHANGED <<runVars, clear_existing, store, ret, setupVars, books,
                   summary, issued, faults, embVars, batchVars, histVars>>

\* upsert_to_qdrant("tags_vecs", tags_points); on failure, continue
K_UpsertTags ==
    /\ script = "1000"
    /\ pc = "upsert_tags"
    /\ \E resp \in Responses(UpsertResponses("tags_vecs")) :
        /\ issued' = issued \cup {"upsert"}
        /\ faults' = (faults \/ resp # "ok")
        /\ IF resp = "ok"
           THEN /\ store' = [store EXCEPT !["tags_vecs"].points =
                                StoreUpsert(@, tags_points)]
                /\ pc' = "upsert_desc"
                /\ UNCHANGED <<i, upsert_failed>>
           ELSE /\ pc' = TagsRejected
                /\ i' = i + batch_size
                /\ upsert_failed' = TRUE
                /\ store' = store
    /\ UNCHANGED <<runVars, clear_existing, ret, setupVars, books, stats,
                   summary, embVars, batchVars, half_written, after_first,
                   emb_failed>>

\* upsert_to_qdrant("desc_vecs", desc_points): total_uploaded grows by the
\* number of tag points; on failure, continue
K_UpsertDesc ==
    /\ script = "1000"
    /\ pc = "upsert_desc"
    /\ \E resp \in Responses(UpsertResponses("desc_vecs")) :
        /\ issued' = issued \cup {"upsert"}
        /\ faults' = (faults \/ resp # "ok")
        /\ IF resp = "ok"
           THEN /\ store' = [store EXCEPT !["desc_vecs"].points =
                                StoreUpsert(@, desc_points)]
                /\ stats' = [stats EXCEPT !.successful_uploads =
                                @ + Len(tags_points)]
                /\ UNCHANGED <<upsert_failed, half_written>>
           ELSE /\ upsert_failed' = TRUE
                /\ half_written' = TRUE
                /\ UNCHANGED <<store, stats>>
    /\ pc' = "batch"
    /\ i' = i + batch_size
    /\ UNCHANGED <<runVars, clear_existing, ret, setupVars, books, summary,
                   embVars, batchVars, after_first, emb_failed>>

\* the final report of main, which is always printed
K_FinalReport ==
    /\ script = "1000"
    /\ pc = "report"
    /\ summary' = TRUE
    /\ pc' = "verify"
    /\ ci' = 1
    /\ UNCHANGED <<idVars, tVars, uncaught, cleared, created, visited,
                   verify_failed, clear_existing, store, ret, point_ids,
                   books, i, stats, issued, faults, embVars, batchVars,
                   histVars>>
    /\ TrackPhase

\* the 1000 script is started on a store that holds the two collections,
\* both empty
InitK ==
    /\ script = "1000"
    /\ batch_size = BatchSize
    /\ advertised \in BOOLEAN
    /\ run = 1
    /\ input \in Catalogs
    /\ clear_existing = FALSE
    /\ store = [c \in Collections |->
                   [exists |-> TRUE, points |-> NoPoints, legacy |-> 0]]
    /\ pc = "check_qdrant"
    /\ Started
    /\ NoTasks
    /\ faults = FALSE
    /\ half_written = FALSE
    /\ after_first = [c \in Collections |-> {}]

NextK ==
    \/ CheckQdrant
    \/ K_CheckOllama
    \/ LoadFile
    \/ BeginBatch
    \/ K_ProcessBook
    \/ EmbedAttempt
    \/ K_AfterTagsEmbedding
    \/ K_AfterDescEmbedding
    \/ K_BatchResult
    \/ K_UpsertTags
    \/ K_UpsertDesc
    \/ K_FinalReport
    \/ VerifyCollection
    \/ RunAgain

SpecK == InitK /\ [][NextK]_vars

\* C5, as claimed: a get_embedding call that has used up its attempts hands
\* its caller a value that says so.
C5_FailureIsAValue ==
    (pc = "embed_ret" /\ emb_ret.kind # "value") => emb_ret.kind = "None"

\* C5, amended: a get_embedding call that has used up its attempts reports
\* failure to its caller, by returning None in the enhanced script and by
\* raising in the 1000 script, and no exception ever leaves the function
\* that called it: the run goes on with the next record.
C5_FailureStopsAtCaller ==
    /\ ~uncaught
    /\ (pc = "embed_ret" /\ emb_ret.kind # "value") =>
        /\ emb_ret.kind = IF script = "1000" THEN "raised" ELSE "None"
        /\ emb_resp \in {"malformed"} \cup HttpFailures
        /\ requests = MAX_RETRIES
    /\ pc \in {"book", "batch_result"} =>
        /\ Len(tags_points) = Len(desc_points)
        /\ Len(tags_points) = j - Cardinality({x \in emb_failed : x >= i})
        /\ successful_count = Len(tags_points)

\* the last attempt of a call met a malformed body; the record was skipped
\* and the batch is at its next record
C5_Witness ==
    /\ script = "1000"
    /\ pc = "book"
    /\ j = 1
    /\ i \in emb_failed
    /\ tags_points = <<>>
    /\ ~uncaught


(***************************************************************************)
(* import_cleaned_books.py: main hands every batch to a pool of            *)
(* MAX_WORKERS threads; workers[b] is the frame of process_book_batch for  *)
(* batch number b.                                                         *)
(***************************************************************************)
\* the variables the threaded script does not have
tOther == <<script, run, input, clear_existing, ret, ci, point_ids, i, j,
            which, attempt, emb_ret, tags_vector, tags_points, desc_points,
            successful_count, stats, requests, sleeps, emb_resp, emb_failed,
            issued, faults, half_written, upsert_failed, after_first,
            uncaught, cleared, created, callers, phases, verify_failed,
            advertised, batch_size, posts>>

\* str(uuid.uuid4()): random hex digits, the version digit 4, cut 8-4-4-4-12
uuid4(n) ==
    UuidFormat([k \in 1..32 |-> IF k = 13 THEN "4" ELSE HexDigit[n + 1]])

\* the batches of main: books_data[i:i + BATCH_SIZE] for every i in steps
\* of BATCH_SIZE, numbered from 1
NumBatches(data) == (Len(data) + batch_size - 1) \div batch_size

BatchOf(b) == Slice(books, (b - 1) * batch_size, batch_size)

\* the frame of a submitted process_book_batch call that no thread runs
\* yet; puts counts the PUT requests the call has sent, raised says that
\* the call ended with an exception, which its future keeps
Queued ==
    [pc |-> "queued", j |-> 0, book_id |-> <<>>, tags_vector |-> <<>>,
     tags_points |-> <<>>, desc_points |-> <<>>, success_count |-> 0,
     error_count |-> 0, tags_success |-> FALSE, puts |-> 0,
     raised |-> FALSE, result |-> [success |-> 0, error |-> 0]]

\* main: the file is read and every batch is submitted to the executor
T_LoadFile ==
    /\ script = "threaded"
    /\ pc = "load"
    /\ \E resp \in Responses({"ok", "missing", "unparseable"}) :
        IF resp = "ok"
        THEN /\ books' = input
             /\ workers' = [b \in 1..NumBatches(input) |-> Queued]
             /\ pc' = "collect"
        ELSE /\ pc' = Abort
             /\ UNCHANGED <<books, workers>>
    /\ UNCHANGED <<tOther, visited, store, summary, total_success,
                   total_error>>

Running == {b \in DOMAIN workers : workers[b].pc \notin {"queued", "finished", "collected"}}

\* a pool that starts a thread for every submitted batch
FreeThreadAlways == TRUE

\* ThreadPoolExecutor(max_workers=MAX_WORKERS): a task is taken when fewer
\* than MAX_WORKERS threads are busy
FreeThread == Cardinality(Running) < MAX_WORKERS

\* a free thread of the pool takes the oldest submitted batch
T_Start(b) ==
    /\ script = "threaded"
    /\ workers[b].pc = "queued"
    /\ FreeThread
    /\ \A a \in DOMAIN workers : a < b => workers[a].pc # "queued"
    /\ workers' = [workers EXCEPT ![b].pc = "book"]
    /\ visited' = Append(visited, b)
    /\ UNCHANGED <<tOther, store, pc, books, summary, total_success,
                   total_error>>

\* the except clause of the loop body raised itself, at book.get(...) of
\* line 125: the call ends, its lists are gone
T_Raise(w) ==
    [Queued EXCEPT !.pc = "finished", !.raised = TRUE]

\* the except clause of the loop body: error_count += 1, next record
T_BookError(w) ==
    [w EXCEPT !.error_count = @ + 1, !.j = @ + 1, !.pc = "book",
              !.book_id = <<>>, !.tags_vector = <<>>]

\* the head of the loop over the batch and the first statements of its
\* body: a fresh random book_id, then original_id and tags_text
T_Book(b) ==
    /\ script = "threaded"
    /\ workers[b].pc = "book"
    /\ LET w == workers[b]
           batch == BatchOf(b)
       IN  IF w.j >= Len(batch)
           THEN workers' = [workers EXCEPT ![b].pc = "upsert_tags"]
           ELSE \E n \in 0..MaxUuid :
                IF ~IsObject(batch[w.j + 1])
                THEN workers' = [workers EXCEPT ![b] = T_Raise(w)]
                ELSE IF {"book_id", "tags"} \subseteq DOMAIN batch[w.j + 1]
                THEN workers' = [workers EXCEPT ![b].book_id = uuid4(n),
                                                ![b].pc = "embed_tags"]
                ELSE workers' = [workers EXCEPT ![b] = T_BookError(w)]
    /\ UNCHANGED <<tOther, visited, store, pc, books, summary, total_success,
                   total_error>>

\* tags_text of process_book_batch
T_TagsText(book) == <<"category:">> \o JoinComma(book["tags"])

\* get_embedding(tags_text): one request, [] on any failure
T_EmbedTags(b) ==
    /\ script = "threaded"
    /\ workers[b].pc = "embed_tags"
    /\ LET w == workers[b]
           book == BatchOf(b)[w.j + 1]
       IN  \E resp \in Responses({"ok", "malformed"} \cup HttpFailures) :
            IF resp = "ok" /\ "description" \in DOMAIN book
            THEN workers' = [workers EXCEPT
                                ![b].tags_vector = EmbeddingOf(T_TagsText(book)),
                                ![b].pc = "embed_desc"]
            ELSE workers' = [workers EXCEPT ![b] = T_BookError(w)]
    /\ UNCHANGED <<tOther, visited, store, pc, books, summary, total_success,
                   total_error>>

\* tags_point of process_book_batch
T_TagsPoint(book, book_id, vector) ==
    [id |-> book_id,
     vector |-> vector,
     payload |-> [book_id |-> book_id,
                  original_id |-> book["book_id"],
                  title |-> book["title"],
                  author |-> book["author"],
                  description |-> book["description"],
                  tags |-> book["tags"],
                  language |-> book["language"],
                  cover_url |-> Get(book, "cover_url", ""),
                  type |-> "book"]]

\* desc_point of process_book_batch
T_DescPoint(book, book_id, vector) ==
    [id |-> book_id,
     vector |-> vector,
     payload |-> [book_id |-> book_id,
                  original_id |-> book["book_id"],
                  description |-> book["description"],
                  type |-> "book_desc"]]

\* get_embedding(book["description"]), and with both vectors the two
\* points, which share the random book_id
T_EmbedDesc(b) ==
    /\ script = "threaded"
    /\ workers[b].pc = "embed_desc"
    /\ LET w == workers[b]
           book == BatchOf(b)[w.j + 1]
       IN  \E resp \in Responses({"ok", "malformed"} \cup HttpFailures) :
            IF resp = "ok" /\ {"title", "author", "language"} \subseteq DOMAIN book
            THEN workers' = [workers EXCEPT
                    ![b].tags_points = Append(@,
                        T_TagsPoint(book, w.book_id, w.tags_vector)),
                    ![b].desc_points = Append(@,
                        T_DescPoint(book, w.book_id,
                                    EmbeddingOf(<<book["description"]>>))),
                    ![b].success_count = @ + 1,
                    ![b].j = @ + 1,
                    ![b].pc = "book",
                    ![b].book_id = <<>>,
                    ![b].tags_vector = <<>>]
            ELSE workers' = [workers EXCEPT ![b] = T_BookError(w)]
    /\ UNCHANGED <<tOther, visited, store, pc, books, summary, total_success,
                   total_error>>

\* upsert_to_collection("tags_vecs", tags_points): only status 200 counts
T_UpsertTags(b) ==
    /\ script = "threaded"
    /\ workers[b].pc = "upsert_tags"
    /\ \E resp \in Responses({"ok"} \cup HttpFailures) :
        /\ store' = IF resp = "ok"
                    THEN [store EXCEPT !["tags_vecs"].points =
                             StoreUpsert(@, workers[b].tags_points)]
                    ELSE store
        /\ workers' = [workers EXCEPT ![b].tags_success = (resp = "ok"),
                                      ![b].puts = @ + 1,
                                      ![b].pc = "upsert_desc"]
    /\ UNCHANGED <<tOther, visited, pc, books, summary, total_success,
                   total_error>>

\* upsert_to_collection("desc_vecs", desc_points), attempted whatever the
\* first upload did, and the result of the batch
T_UpsertDesc(b) ==
    /\ script = "threaded"
    /\ workers[b].pc = "upsert_desc"
    /\ LET w == workers[b]
       IN  \E resp \in Responses({"ok"} \cup HttpFailures) :
            /\ store' = IF resp = "ok"
                        THEN [store EXCEPT !["desc_vecs"].points =
                                 StoreUpsert(@, w.desc_points)]
                        ELSE store
            /\ workers' = [workers EXCEPT
                    ![b].result =
                        IF w.tags_success /\ resp = "ok"
                        THEN [success |-> w.success_count,
                              error |-> w.error_count]
                        ELSE [success |-> 0, error |-> Len(BatchOf(b))],
                    ![b].puts = @ + 1,
                    ![b].pc = "finished"]
    /\ UNCHANGED <<tOther, visited, pc, books, summary, total_success,
                   total_error>>

\* a total that keeps only the result read last
AccumulateLost(total, x) == x

\* main, total_success += result["success"] and total_error +=
\* result["error"]
Accumulate(total, x) == total + x

\* what main adds for a future: the counts of its result, or BATCH_SIZE
\* errors when future.result() raises
Outcome(w) ==
    IF w.raised THEN [success |-> 0, error |-> batch_size] ELSE w.result

\* main, for future in as_completed(...): the totals take the result of a
\* finished batch
T_Collect(b) ==
    /\ script = "threaded"
    /\ pc = "collect"
    /\ workers[b].pc = "finished"
    /\ total_success' = Accumulate(total_success, Outcome(workers[b]).success)
    /\ total_error' = Accumulate(total_error, Outcome(workers[b]).error)
    /\ workers' = [workers EXCEPT ![b].pc = "collected"]
    /\ UNCHANGED <<tOther, visited, store, pc, books, summary>>

\* main after the with block: the statistics are printed
T_Report ==
    /\ script = "threaded"
    /\ pc = "collect"
    /\ \A b \in DOMAIN workers : workers[b].pc = "collected"
    /\ summary' = TRUE
    /\ pc' = "done"
    /\ UNCHANGED <<tOther, visited, store, books, workers, total_success,
                   total_error>>

T_RecordPool == {FullBook, BookWithId, BookWithoutId, NotAnObject}

T_Catalogs == UNION {[1..n -> T_RecordPool] : n \in 0..MaxBooks}

\* the threaded script is started on a store that holds the two
\* collections, both empty
InitT ==
    /\ script = "threaded"
    /\ batch_size = BatchSize
    /\ advertised = TRUE
    /\ run = 1
    /\ input \in T_Catalogs
    /\ clear_existing = FALSE
    /\ store = [c \in Collections |->
                   [exists |-> TRUE, points |-> NoPoints, legacy |-> 0]]
    /\ pc = "load"
    /\ Started
    /\ NoTasks
    /\ faults = FALSE
    /\ half_written = FALSE
    /\ after_first = [c \in Collections |-> {}]

NextT ==
    \/ T_LoadFile
    \/ \E b \in DOMAIN workers : T_Start(b)
    \/ \E b \in DOMAIN workers : T_Book(b)
    \/ \E b \in DOMAIN workers : T_EmbedTags(b)
    \/ \E b \in DOMAIN workers : T_EmbedDesc(b)
    \/ \E b \in DOMAIN workers : T_UpsertTags(b)
    \/ \E b \in DOMAIN workers : T_UpsertDesc(b)
    \/ \E b \in DOMAIN workers : T_Collect(b)
    \/ T_Report

SpecT == InitT /\ [][NextT]_vars

\* C3, as claimed: in every script the identifier of a record's points is
\* determined by the record's key alone, so the points written for one key
\* all carry one identifier.
C3_IdentifierDeterminedByKey ==
    \A c \in Collections : \A a, b \in PointIds(c) :
        store[c].points[a].payload.original_id
            = store[c].points[b].payload.original_id
        => a = b


(***************************************************************************)
(* setup_collections on its own, on a store that the run finds in any      *)
(* condition: a collection is absent, or holds points of this importer     *)
(* and of others.                                                          *)
(***************************************************************************)
\* a point as an earlier import of the record wrote it
StoredPoint(book, book_index) ==
    [vector |-> EmbeddingOf(Prompt(book, "tags")),
     payload |-> full_payload(book, book_index)]

\* the conditions a collection can be in when the run starts
CollectionStates ==
    {[exists |-> FALSE, points |-> NoPoints, legacy |-> 0]}
    \cup
    {[exists |-> TRUE, points |-> pts, legacy |-> old] :
        pts \in {NoPoints,
                 [id \in {book_id_to_uuid(BookKey(BookWithId, 0))} |->
                     StoredPoint(BookWithId, 0)]},
        old \in {0, SCROLL_LIMIT - 1, SCROLL_LIMIT, SCROLL_LIMIT + MaxExtra}}

InitSetup ==
    /\ script = "enhanced"
    /\ batch_size = BatchSize
    /\ advertised = TRUE
    /\ run = 1
    /\ input = <<>>
    /\ clear_existing \in BOOLEAN
    /\ store \in [Collections -> CollectionStates]
    /\ pc = "setup_exists"
    /\ Started
    /\ NoTasks
    /\ faults = FALSE
    /\ half_written = FALSE
    /\ after_first = [c \in Collections |-> {}]

NextSetup ==
    \/ SetupCheckExists
    \/ ClearScroll
    \/ ClearDelete
    \/ CreateCollection

SpecSetup == InitSetup /\ [][NextSetup]_vars

\* C9, as claimed: a collection whose clear returned success holds no
\* point, whatever its size was, and a clear whose scroll or delete request
\* failed has returned failure.
C9_ClearedMeansEmpty ==
    /\ \A c \in cleared : PointCount(c) = 0
    /\ pc = "failed" =>
        /\ ret = "False"
        /\ CollectionNames[ci] \notin cleared

(***************************************************************************)
(* setup_collections run by NumCallers processes at once against one       *)
(* store; callers[p] is the frame of process p.                            *)
(***************************************************************************)
\* the variables setup_collections of a caller does not touch
cOther == <<script, run, input, clear_existing, pc, ret, ci, point_ids,
            books, i, j, which, attempt, emb_ret, tags_vector, tags_points,
            desc_points, successful_count, stats, summary, requests, sleeps,
            emb_resp, emb_failed, issued, half_written, upsert_failed,
            after_first, uncaught, cleared, workers, total_success,
            total_error, logVars, advertised, created, batch_size,
            posts>>

\* where a caller is once a collection is done
CallerNext(c) ==
    IF c.ci < Len(CollectionNames)
    THEN [c EXCEPT !.ci = @ + 1, !.pc = "setup_exists"]
    ELSE [c EXCEPT !.pc = "done", !.ret = "True"]

\* check_collection_exists of caller p; without --clear-existing an
\* existing collection is used as it is
Caller_CheckExists(p) ==
    /\ callers[p].pc = "setup_exists"
    /\ \E resp \in {"answered"} \cup HttpFailures :
        LET exists == check_collection_exists(resp, CollectionNames[callers[p].ci])
        IN  /\ faults' = (faults \/ resp # "answered")
            /\ callers' = [callers EXCEPT ![p] =
                              IF exists THEN CallerNext(@)
                              ELSE [@ EXCEPT !.pc = "create"]]
    /\ UNCHANGED <<cOther, store>>

\* create_collection of caller p; a request the store turns down because
\* the collection is there is no fault of the environment
Caller_Create(p) ==
    /\ callers[p].pc = "create"
    /\ LET name == CollectionNames[callers[p].ci]
       IN  \E resp \in CreateResponses(name) :
            /\ faults' = (faults \/ (resp # "ok" /\ ~store[name].exists))
            /\ IF resp = "ok"
               THEN /\ store' = [store EXCEPT ![name].exists = TRUE]
                    /\ callers' = [callers EXCEPT ![p] = CallerNext(@)]
               ELSE /\ store' = store
                    /\ callers' = [callers EXCEPT ![p].pc = "failed",
                                                  ![p].ret = "False"]
    /\ UNCHANGED cOther

InitEnsure ==
    /\ script = "enhanced"
    /\ batch_size = BatchSize
    /\ advertised = TRUE
    /\ run = 1
    /\ input = <<>>
    /\ clear_existing = FALSE
    /\ store \in [Collections ->
                    {[exists |-> e, points |-> NoPoints, legacy |-> 0] :
                        e \in BOOLEAN}]
    /\ pc = "setup_exists"
    /\ Started
    /\ callers = [p \in 1..NumCallers |->
                     [pc |-> "setup_exists", ci |-> 1, ret |-> "None"]]
    /\ workers = <<>>
    /\ total_success = 0
    /\ total_error = 0
    /\ faults = FALSE
    /\ half_written = FALSE
    /\ after_first = [c \in Collections |-> {}]

NextEnsure ==
    \/ \E p \in DOMAIN callers : Caller_CheckExists(p)
    \/ \E p \in DOMAIN callers : Caller_Create(p)

SpecEnsure == InitEnsure /\ [][NextEnsure]_vars

\* C10, as claimed: when every caller has finished and no request met a
\* failure of the environment, every collection exists and no caller has
\* reported failure.
C10_ConcurrentEnsureSafe ==
    ((\A p \in DOMAIN callers : callers[p].pc \in {"done", "failed"})
        /\ ~faults)
    => /\ \A c \in Collections : store[c].exists
       /\ \A p \in DOMAIN callers : callers[p].ret = "True"


(***************************************************************************)
(* The phases of a run (specifications Spec and SpecK).                    *)
(***************************************************************************)
\* the phases in the order of the steps of import_books
Chain ==
    <<"ServiceCheck", "CollectionSetup", "Loading", "Importing", "Verifying",
      "Done">>

\* the phases the script has: main of the 1000 script has no collection
\* setup
ChainOf(s) ==
    IF s = "1000" THEN SelectSeq(Chain, LAMBDA ph : ph # "CollectionSetup")
    ELSE Chain

IsPrefix(s, t) == Len(s) <= Len(t) /\ SubSeq(t, 1, Len(s)) = s

\* the phases entered so far follow the chain, up to a failure that ends them
InOrder(chain) ==
    \/ IsPrefix(phases, chain)
    \/ /\ Len(phases) >= 2
       /\ phases[Len(phases)] = "Failed"
       /\ IsPrefix(SubSeq(phases, 1, Len(phases) - 1), chain)
       /\ Len(phases) - 1 <= 3

\* what a phase that was entered shows of the success of its predecessor
PredecessorSucceeded ==
    /\ (\E k \in DOMAIN phases : phases[k] = "Loading") =>
        /\ {"list_collections", "list_models"} \subseteq issued
        /\ script = "enhanced" =>
            (advertised /\ \A c \in Collections : store[c].exists)
    /\ (\E k \in DOMAIN phases : phases[k] = "Importing") =>
        stats.start_time = "set"
    /\ (\E k \in DOMAIN phases : phases[k] = "Verifying") =>
        /\ i >= Len(books)
        /\ summary
    /\ (\E k \in DOMAIN phases : phases[k] = "Done") => ret = Return("True")
    /\ phases[Len(phases)] = "Failed" =>
        /\ pc = "failed"
        /\ ret = Return("False")
        /\ visited = <<>>

WritingRequests == {"create", "delete", "upsert", "embed"}

\* the service check of this run is over and has found a service
\* unreachable or the model not advertised
ServiceCheckFailed ==
    /\ phases[Len(phases)] # "ServiceCheck"
    /\ ~advertised \/ phases = <<"ServiceCheck", "Failed">>

\* C12, as claimed: when the vector store or the embedding service is
\* unreachable, or the model is not among the advertised models, the run
\* is fatal and issues no create, delete, upsert or embedding request.
C12_ServiceCheckFailureIsFatal ==
    ServiceCheckFailed =>
        /\ pc = "failed"
        /\ phases = <<"ServiceCheck", "Failed">>
        /\ issued \cap WritingRequests = {}


\* setup_collections has returned True: the run is past the collection
\* setup and has not failed in it
SetupSucceeded ==
    /\ script = "enhanced"
    /\ Len(phases) >= 3
    /\ phases[3] # "Failed"

\* C13: when setup_collections has returned True both collections exist,
\* and with --clear-existing every collection that was there before the
\* run was cleared with success; when a create or a clear failed the run
\* is fatal and has issued no embedding and no upsert request.
C13_SetupSuccessMeansCollectionsReady ==
    /\ SetupSucceeded => \A c \in Collections : store[c].exists
    /\ (pc = "load" /\ clear_existing) =>
        \A c \in Collections : c \notin created => c \in cleared
    /\ (pc = "load" /\ ~clear_existing) => cleared = {}
    /\ (Len(phases) = 3 /\ phases[3] = "Failed") =>
        /\ pc = "failed"
        /\ ret = "False"
        /\ issued \cap {"embed", "upsert"} = {}
        /\ books = <<>>

\* a second run with --clear-existing has cleared one collection, and the
\* clear of the other has failed: the run is over
C13_Witness ==
    /\ run = 2
    /\ clear_existing
    /\ cleared = {"tags_vecs"}
    /\ "scroll" \in issued
    /\ phases = <<"ServiceCheck", "CollectionSetup", "Failed">>
    /\ ret = "False"


(***************************************************************************)
(* The batch loop (specifications Spec and LiveSpec).                      *)
(***************************************************************************)
\* the script is one thread that runs on: every request is sent with a
\* timeout, so every step of the run comes to its end
LiveSpec == Spec /\ WF_vars(Next)

\* the start offsets of the batches of the loaded records:
\* range(0, len(books), batch_size)
AllBatches == [k \in 1..NumBatches(books) |-> (k - 1) * batch_size]

\* the run is in its batch loop or past it
ImportingEntered == \E k \in DOMAIN phases : phases[k] = "Importing"

\* C14: once Importing is entered, the batches are begun one after the
\* other, each once, whatever happened to the batches before; the run does
\* not end in failure, so it can only leave the loop for Verifying; and it
\* always goes on to Done, where every batch has been begun exactly once
\* and import_books returns True.
C14_ImportAlwaysCompletes ==
    /\ [](ImportingEntered =>
            /\ pc # "failed"
            /\ IsPrefix(visited, AllBatches)
            /\ PhaseOf(pc) \in {"Verifying", "Done"} => visited = AllBatches)
    /\ PhaseOf(pc) = "Importing"
          ~> (pc = "done" /\ ret = "True" /\ visited = AllBatches)

\* a run is done and has returned True although in one of its two batches
\* an embedding call failed and in the other an upload was rejected
C14_Witness ==
    /\ run = 1
    /\ pc = "done"
    /\ ret = "True"
    /\ visited = <<0, batch_size>>
    /\ emb_failed # {}
    /\ upsert_failed


(***************************************************************************)
(* The end of a run (specification Spec).                                  *)
(***************************************************************************)
\* C15, as claimed: every run that has ended, in Done or in Failed, has
\* printed the final summary.
C15_EveryTerminalStateHasSummary ==
    pc \in {"done", "failed"} => summary

\* C16: a failed request of verify_collections is only reported: the run
\* stays in Verifying or goes to Done, never to Failed, and import_books
\* returns True.
C16_VerifyFailureIsNotFatal ==
    /\ PhaseOf(pc) = "Verifying" => ~(\E k \in DOMAIN phases : phases[k] = "Failed")
    /\ verify_failed =>
        /\ pc \in {"verify", "done"}
        /\ phases[Len(phases)] \in {"Verifying", "Done"}
    /\ pc = "done" =>
        /\ ret = Return("True")
        /\ phases[Len(phases)] = "Done"

\* a run is done and has returned True after a request of
\* verify_collections failed
C16_Witness ==
    /\ script = "enhanced"
    /\ pc = "done"
    /\ verify_failed
    /\ ret = "True"
    /\ phases = Chain


(***************************************************************************)
(* The split into batches: runs of the enhanced script from the point      *)
(* where the collections are set up, with any batch size, over files of    *)
(* records without book_id, that meet no failure (specification            *)
(* SpecBatches).                                                           *)
(***************************************************************************)
InitBatches ==
    /\ script = "enhanced"
    /\ batch_size \in 1..MaxBatchSize
    /\ advertised = TRUE
    /\ run = 2
    /\ input \in {[k \in 1..n |-> BookWithoutId] : n \in 0..MaxRecords}
    /\ clear_existing = FALSE
    /\ store = [c \in Collections |->
                   [exists |-> TRUE, points |-> NoPoints, legacy |-> 0]]
    /\ pc = "load"
    /\ Started
    /\ NoTasks
    /\ faults = FALSE
    /\ half_written = FALSE
    /\ after_first = [c \in Collections |-> {}]

NextBatches ==
    \/ LoadFile
    \/ BeginBatch
    \/ ProcessBook
    \/ EmbedAttempt
    \/ AfterTagsEmbedding
    \/ AfterDescEmbedding
    \/ BatchResult
    \/ UpsertTags
    \/ UpsertDesc
    \/ UpdateStats
    \/ FinalReport
    \/ VerifyCollection

SpecBatches == InitBatches /\ [][NextBatches]_vars

\* the positions of the input that batch k holds
Covered(k) ==
    LET from == AllBatches[k]
    IN  {from + m : m \in 1..Len(Slice(books, from, batch_size))}

\* C17: the loaded records are split into ceil(n/b) consecutive batches,
\* every batch but the last of size b and the last of size 1..b, every
\* record in exactly one batch; the run begins these batches in order; and
\* a run that met no failure ends with processed count n and n points in
\* each collection.
C17_BatchesPartitionTheRecords ==
    LET n == Len(books)
        b == batch_size
        m == NumBatches(books)
    IN  /\ m * b >= n
        /\ n > 0 => (m - 1) * b < n
        /\ n = 0 => m = 0
        /\ \A k \in 1..m :
            /\ k < m => Len(Slice(books, AllBatches[k], b)) = b
            /\ k = m => Len(Slice(books, AllBatches[k], b)) = n - (m - 1) * b
            /\ Slice(books, AllBatches[k], b)
                 = [x \in 1..Cardinality(Covered(k)) |-> books[AllBatches[k] + x]]
        /\ \A x \in 1..n : Cardinality({k \in 1..m : x \in Covered(k)}) = 1
        /\ IsPrefix(visited, AllBatches)
        /\ pc \in {"book", "embed", "embed_ret", "batch_result", "upsert_tags",
                   "upsert_desc", "update_stats"} =>
            /\ i = visited[Len(visited)]
            /\ Batch = Slice(books, i, b)
        /\ (pc = "done" /\ ~faults) =>
            /\ visited = AllBatches
            /\ stats.total_books = n
            /\ stats.processed_books = n
            /\ stats.successful_uploads = n
            /\ \A c \in Collections : PointCount(c) = n

\* 12 records with batch size 10: two batches, of 10 and of 2 records, and
\* a processed count of 12
C17_Witness ==
    /\ pc = "done"
    /\ ~faults
    /\ Len(books) = 12
    /\ batch_size = 10
    /\ visited = <<0, 10>>
    /\ Len(Slice(books, 0, 10)) = 10
    /\ Len(Slice(books, 10, 10)) = 2
    /\ stats.processed_books = 12


(***************************************************************************)
(* The thread pool under load: the threaded script with one record per     *)
(* batch, so that more batches than threads are submitted, in runs that    *)
(* meet no failure (specification SpecPool).  The operating system runs    *)
(* every thread and main's loop over the completed futures, and every      *)
(* request carries a timeout: some step is always taken while one can be.  *)
(***************************************************************************)
\* a record that lacks nothing but book_id
FullBookWithoutId ==
    [key \in (DOMAIN FullBook) \ {"book_id"} |-> FullBook[key]]

\* a file of n records: two complete records, whose batches send every
\* request, and records without book_id, whose batches end at line 72
PoolInput(n) ==
    [k \in 1..n |-> IF k <= 2 THEN FullBook ELSE FullBookWithoutId]

InitPool ==
    /\ script = "threaded"
    /\ batch_size = 1
    /\ advertised = TRUE
    /\ run = 2
    /\ input \in {PoolInput(n) : n \in 0..MaxPoolBooks}
    /\ clear_existing = FALSE
    /\ store = [c \in Collections |->
                   [exists |-> TRUE, points |-> NoPoints, legacy |-> 0]]
    /\ pc = "load"
    /\ Started
    /\ NoTasks
    /\ faults = FALSE
    /\ half_written = FALSE
    /\ after_first = [c \in Collections |-> {}]

SpecPool == InitPool /\ [][NextT]_vars /\ WF_vars(NextT)

\* the batches a thread is working on
InProgress ==
    {b \in DOMAIN workers :
        workers[b].pc \in {"book", "embed_tags", "embed_desc", "upsert_tags",
                           "upsert_desc"}}

\* C18: never more than MAX_WORKERS batches are being processed at once; a
\* batch is begun at most once; and every submitted batch is in the end
\* picked up, processed and collected, each begun exactly once.
C18_PoolIsBoundedAndFair ==
    /\ [](/\ Cardinality(InProgress) <= MAX_WORKERS
          /\ \A x, y \in DOMAIN visited : visited[x] = visited[y] => x = y
          /\ \A b \in DOMAIN workers :
                workers[b].pc # "queued" <=> \E x \in DOMAIN visited : visited[x] = b)
    /\ pc = "collect"
          ~> /\ pc = "done"
             /\ \A b \in DOMAIN workers : workers[b].pc = "collected"
             /\ Len(visited) = NumBatches(books)

\* every thread of the pool is busy and a batch waits in the queue
C18_Witness ==
    /\ Cardinality(InProgress) = MAX_WORKERS
    /\ \E b \in DOMAIN workers : workers[b].pc = "queued"


(***************************************************************************)
(* The statistics of the threaded script                                   *)
(***************************************************************************)
RECURSIVE SumCollected(_, _)
\* the sum of field f of what main adds for the collected batches among
\* the first n
SumCollected(f, n) ==
    IF n = 0
    THEN 0
    ELSE SumCollected(f, n - 1)
            + IF workers[n].pc = "collected" THEN Outcome(workers[n])[f]
              ELSE 0

\* a step of the thread that runs batch b
WorkerStep(b) ==
    /\ workers'[b] # workers[b]
    /\ workers'[b].pc # "collected"

\* C19: the totals are the sums of the results of the batches collected so
\* far, whatever the order the batches finish in, and at the end the sums
\* over all batches; a step of a thread changes neither the totals nor the
\* frame of another batch, the totals change only where main collects a
\* result.
C19_TotalsAreTheSumOfTheBatches ==
    /\ [](script = "threaded" =>
            /\ total_success = SumCollected("success", Len(workers))
            /\ total_error = SumCollected("error", Len(workers))
            /\ pc = "done" =>
                \A b \in DOMAIN workers : workers[b].pc = "collected")
    /\ [][/\ \A b \in DOMAIN workers \cap DOMAIN workers' :
                WorkerStep(b) =>
                    /\ total_success' = total_success
                    /\ total_error' = total_error
                    /\ \A c \in DOMAIN workers \ {b} : workers'[c] = workers[c]
          /\ <<total_success, total_error>>' # <<total_success, total_error>>
                => \E b \in DOMAIN workers :
                      /\ workers[b].pc = "finished"
                      /\ workers'[b].pc = "collected"]_vars

\* the run is over, the results of two batches were added and both totals
\* are positive
C19_Witness ==
    /\ script = "threaded"
    /\ pc = "done"
    /\ Len(visited) = 2
    /\ total_success > 0
    /\ total_error > 0
    /\ workers[1].result.success + workers[1].result.error > 0
    /\ workers[2].result.success > 0


(***************************************************************************)
(* Replay.  The first run can also be killed at any point, between two     *)
(* requests: the store keeps what the accepted requests wrote, and nothing *)
(* else of the run is kept, as the script writes no checkpoint.  The       *)
(* script is then run again (specification SpecReplay).                    *)
(***************************************************************************)
Crash ==
    /\ script = "enhanced"
    /\ run = 1
    /\ pc \notin {"done", "failed", "crashed"}
    /\ pc' = "crashed"
    /\ faults' = TRUE
    /\ UNCHANGED <<runVars, setupVars, embVars, batchVars, half_written,
                   upsert_failed, after_first, emb_failed, clear_existing,
                   store, ret, books, i, stats, summary, issued>>

NextReplay == Next \/ Crash

SpecReplay == Init /\ [][NextReplay]_vars

\* the identifiers derived from the keys of the input
InputIds == {book_id_to_uuid(BookKey(input[k], k - 1)) : k \in DOMAIN input}

\* C20: a run that met no failure ends with exactly the identifiers of the
\* input keys in both collections; and so does every second run over the
\* same input that completes with no failure in its import, whatever the
\* first run left behind: it may have been killed at any point, have
\* failed, or have lost any of its batches, the second upsert of a batch
\* alone included.
C20_ReplayConverges ==
    /\ (run = 1 /\ pc = "done" /\ ~faults) =>
            \A c \in Collections : PointIds(c) = InputIds
    /\ (run = 2 /\ pc = "done") =>
            \A c \in Collections :
                /\ PointIds(c) = InputIds
                /\ store[c].legacy = 0

\* the first run wrote the tags of a batch and not its descriptions, and
\* left the collections with different identifiers; the second run is done
C20_Witness ==
    /\ run = 2
    /\ pc = "done"
    /\ half_written
    /\ after_first["tags_vecs"] # after_first["desc_vecs"]
    /\ after_first["tags_vecs"] # InputIds
    /\ Cardinality(InputIds) = 2

(***************************************************************************)
(* The lists of a batch (specification SpecK).                             *)
(***************************************************************************)
\* the identifiers of a list of points, in order
IdSeq(points) == [k \in DOMAIN points |-> points[k].id]

\* the identifiers of the records of the current batch whose two embedding
\* calls succeeded, in the order of the input
SurvivorIds == [k \in DOMAIN Survivors |-> ExpectedId(Survivors[k])]

\* C21: when the processing of a batch returns, the identifiers of each of
\* its two lists are, in input order, those of the records of the batch
\* whose two embeddings succeeded; a record under a key met before in the
\* batch still has its own pair of points.
C21_ListsMirrorTheInput ==
    pc = "batch_result" =>
        /\ IdSeq(tags_points) = SurvivorIds
        /\ IdSeq(desc_points) = SurvivorIds

\* a batch of two records under one book_id has been processed: each list
\* holds two points under one identifier
C21_Witness ==
    /\ pc = "batch_result"
    /\ Len(Batch) = 2
    /\ Batch[1] = Batch[2]
    /\ Len(tags_points) = 2
    /\ tags_points[1].id = tags_points[2].id
    /\ Len(desc_points) = 2


(***************************************************************************)
(* The tag text.  Each of the three scripts is run on a file of one        *)
(* record that has every key, with no tag, one tag or more, and with or    *)
(* without a title (specification SpecTagText).  The text a script asked   *)
(* the vector for is read off the stored point: EmbeddingOf keeps it.      *)
(***************************************************************************)
TagPool == <<"t1", "t2", "t3">>

TagLists == {SubSeq(TagPool, 1, n) : n \in 0..MaxTags}

TagRecords ==
    {[FullBook EXCEPT !.tags = tags, !.title = title] :
        tags \in TagLists, title \in {"", "T1"}}

InitTagText ==
    /\ script \in {"enhanced", "1000", "threaded"}
    /\ batch_size = BatchSize
    /\ advertised = TRUE
    /\ run = 1
    /\ input \in {<<book>> : book \in TagRecords}
    /\ clear_existing = FALSE
    /\ store = [c \in Collections |->
                   [exists |-> TRUE, points |-> NoPoints, legacy |-> 0]]
    /\ pc = IF script = "threaded" THEN "load" ELSE "check_qdrant"
    /\ Started
    /\ NoTasks
    /\ faults = FALSE
    /\ half_written = FALSE
    /\ after_first = [c \in Collections |-> {}]

NextTagText == Next \/ NextK \/ NextT

SpecTagText == InitTagText /\ [][NextTagText]_vars

\* the text a stored tag point was embedded from
EmbeddedText(point) == Tail(point.vector)

\* the tag text as claimed, from the tags and the title the payload keeps
ClaimedTagText(payload) ==
    IF payload.tags # <<>> THEN <<"category:">> \o JoinComma(payload.tags)
    ELSE <<"title:", payload.title>>

\* C22: in every script, every point of tags_vecs was embedded from the
\* category prefix and the comma-joined tags when the record has tags, and
\* from the title prefix and the title when it has none.
C22_TagTextByTags ==
    \A id \in PointIds("tags_vecs") :
        LET point == store["tags_vecs"].points[id]
        IN  EmbeddedText(point) = ClaimedTagText(point.payload)


(***************************************************************************)
(* Uploads of empty lists (specification SpecT).                           *)
(***************************************************************************)
\* C23: an upload called with an empty list of points sends no request
\* and reports success: a batch of the thread-pool script that has no tag
\* point has, after its first upload, sent no PUT request and holds
\* tags_success.
C23_EmptyUpsertIsNoOp ==
    \A b \in DOMAIN workers :
        (workers[b].pc = "upsert_desc" /\ workers[b].tags_points = <<>>) =>
            /\ workers[b].puts = 0
            /\ workers[b].tags_success


(***************************************************************************)
(* The fallback key (specification SpecPool, whose requests all succeed).  *)
(***************************************************************************)
\* "bk_" and the position of the record in the whole input, from 0
FallbackKey(position) == <<"b", "k", "_">> \o Decimal(position)

\* C24: a record without book_id is imported under the key "bk_" and its
\* position in the input: when a run whose requests all succeeded is
\* done, tags_vecs holds for every such record a point that names this
\* key, and so one point for each of them.
C24_RecordWithoutIdHasPositionalKey ==
    pc = "done" =>
        \A k \in DOMAIN books :
            "book_id" \notin DOMAIN books[k] =>
                \E id \in PointIds("tags_vecs") :
                    store["tags_vecs"].points[id].payload.original_id
                        = FallbackKey(k - 1)


(***************************************************************************)
(* No rollback (specification Spec).                                       *)
(***************************************************************************)
\* C25: while the batches are imported no delete request is issued and no
\* point leaves a collection; the step in which the description upload of
\* a batch fails, after its tag upload was accepted, leaves the store as
\* it is, the tag points of the batch in tags_vecs, and counts the batch
\* neither as processed nor as uploaded.
C25_NoRollback ==
    [][/\ PhaseOf(pc) = "Importing" =>
            /\ "delete" \in issued' => "delete" \in issued
            /\ \A c \in Collections : PointIds(c) \subseteq PointIds(c)'
       /\ (pc = "upsert_desc" /\ pc' = "batch") =>
            /\ upsert_failed'
            /\ store' = store
            /\ IdsOf(tags_points) \subseteq PointIds("tags_vecs")'
            /\ stats' = stats]_vars

\* the description upload of the first batch has just failed: its tag
\* points are in tags_vecs and desc_vecs is empty
C25_Witness ==
    /\ run = 1
    /\ pc = "batch"
    /\ half_written
    /\ tags_points # <<>>
    /\ IdsOf(tags_points) = PointIds("tags_vecs")
    /\ PointIds("desc_vecs") = {}
    /\ stats.processed_books = 0


(***************************************************************************)
(* The order of the two uploads (specification SpecK).                     *)
(***************************************************************************)
\* C26: in a run that found both collections empty, the description
\* upload of a batch is reached only with the tag points of the batch in
\* tags_vecs, and every identifier of desc_vecs is an identifier of
\* tags_vecs, in every state.
C26_DescWithinTags ==
    run = 1 =>
        /\ PointIds("desc_vecs") \subseteq PointIds("tags_vecs")
        /\ pc = "upsert_desc" =>
            /\ IdsOf(tags_points) \subseteq PointIds("tags_vecs")
            /\ IdsOf(desc_points) = IdsOf(tags_points)

\* the tag upload of the second batch was accepted and its description
\* upload is due: tags_vecs holds an identifier that desc_vecs lacks
C26_Witness ==
    /\ script = "1000"
    /\ run = 1
    /\ pc = "upsert_desc"
    /\ i > 0
    /\ PointIds("desc_vecs") # {}
    /\ PointIds("desc_vecs") # PointIds("tags_vecs")


(***************************************************************************)
(* The totals of the thread-pool script (specification SpecT).             *)
(***************************************************************************)
\* C27: when the thread-pool script is done, total_success and total_error
\* add up to the number of records read.
C27_TotalsCoverTheRecords ==
    (script = "threaded" /\ pc = "done") =>
        total_success + total_error = Len(books)


(***************************************************************************)
(* The counters of BookImporter.stats (specification Spec).                *)
(***************************************************************************)
Counters ==
    {"total_books", "processed_books", "successful_uploads",
     "failed_uploads", "embedding_calls"}

\* C28: in every state successful_uploads <= processed_books <=
\* total_books and successful_uploads + failed_uploads <= total_books;
\* within a run no counter decreases, and processed_books changes only
\* after the two uploads of a batch were accepted, by the length of that
\* batch.
C28_CountersOrdered ==
    /\ [](/\ stats.successful_uploads <= stats.processed_books
          /\ stats.processed_books <= stats.total_books
          /\ stats.successful_uploads + stats.failed_uploads
                <= stats.total_books)
    /\ [][run' = run =>
            /\ \A c \in Counters : stats'[c] >= stats[c]
            /\ stats'.processed_books # stats.processed_books =>
                /\ pc = "update_stats"
                /\ stats'.processed_books
                      = stats.processed_books + Len(Slice(books, i, batch_size))
                /\ IdsOf(tags_points) \subseteq PointIds("tags_vecs")
                /\ IdsOf(desc_points) \subseteq PointIds("desc_vecs")]_vars

\* the last batch, of one record, was uploaded after an earlier batch lost
\* a record: every record is processed, one failed
C28_Witness ==
    /\ run = 1
    /\ pc = "report"
    /\ stats.total_books = 3
    /\ stats.processed_books = 3
    /\ stats.successful_uploads = 2
    /\ stats.failed_uploads = 1


(***************************************************************************)
(* A batch without any point (specification Spec).                         *)
(***************************************************************************)
\* an embedding call failed for every record of the current batch
AllFailed == \A x \in i..(i + Len(Batch) - 1) : x \in emb_failed

\* where a run is while process_batch works on a batch and import_books
\* looks at its result
BatchSteps == {"book", "embed", "embed_ret", "batch_result"}

\* C29: from the begin of a batch to the test of its result no upsert
\* request is issued, the collections and the processed and succeeded
\* counters stay as they are; a batch whose records all failed embedding
\* returns empty lists with every record added to failed_uploads, and is
\* then left without any upload: the loop goes on with the next batch.
C29_FailedBatchUploadsNothing ==
    /\ []((pc = "batch_result" /\ AllFailed) =>
            /\ tags_points = <<>>
            /\ desc_points = <<>>
            /\ successful_count = 0
            /\ stats.failed_uploads = Cardinality(emb_failed)
            /\ Cardinality({x \in emb_failed : x >= i}) = Len(Batch))
    /\ [][/\ pc \in BatchSteps =>
                /\ store' = store
                /\ "upsert" \in issued' => "upsert" \in issued
                /\ stats'.processed_books = stats.processed_books
                /\ stats'.successful_uploads = stats.successful_uploads
          /\ (pc = "batch_result" /\ AllFailed) =>
                /\ pc' = "batch"
                /\ i' = i + batch_size
                /\ stats' = stats]_vars

\* the first batch, of two records, lost both to embedding failures and
\* was skipped: nothing was uploaded, two records are counted as failed
C29_Witness ==
    /\ run = 1
    /\ pc = "batch"
    /\ i = batch_size
    /\ Len(books) > batch_size
    /\ emb_failed = {0, 1}
    /\ stats.failed_uploads = 2
    /\ stats.processed_books = 0
    /\ "upsert" \notin issued
    /\ PointIds("tags_vecs") = {}


(***************************************************************************)
(* The embedding call counter.  The enhanced script runs as in Spec, with  *)
(* an observer that counts every POST /api/embeddings request in posts     *)
(* (specification SpecCalls).                                              *)
(***************************************************************************)
EmbedAttemptCounted == EmbedRequest(TRUE)

NextCalls ==
    \/ CheckQdrant
    \/ CheckOllama
    \/ SetupCheckExists
    \/ ClearScroll
    \/ ClearDelete
    \/ CreateCollection
    \/ LoadFile
    \/ BeginBatch
    \/ ProcessBook
    \/ EmbedAttemptCounted
    \/ AfterTagsEmbedding
    \/ AfterDescEmbedding
    \/ BatchResult
    \/ UpsertTags
    \/ UpsertDesc
    \/ UpdateStats
    \/ FinalReport
    \/ VerifyCollection
    \/ RunAgain

SpecCalls == Init /\ [][NextCalls]_vars

\* the records of this run that process_book has returned for
RecordsDone ==
    CASE pc \in {"book", "embed", "embed_ret"} -> i + j
      [] pc \in {"batch_result", "upsert_tags", "upsert_desc",
                 "update_stats"} -> i + Len(Batch)
      [] pc = "batch" -> IF i < Len(books) THEN i ELSE Len(books)
      [] pc \in {"report", "verify", "done"} -> Len(books)
      [] OTHER -> 0

\* the get_embedding calls made so far for the record process_book is at
CallsOfCurrent ==
    IF pc \in {"embed", "embed_ret"}
    THEN IF which = "tags" THEN 1 ELSE 2
    ELSE 0

\* C30: embedding_calls grows by one where get_embedding is entered and
\* nowhere else, a pass of the retry loop leaves it alone; the description
\* vector is asked for only with the tag vector at hand, and a record whose
\* tag embedding failed gets no further call; so the calls for k processed
\* records number between k and 2k, every call has sent a request once its
\* loop has begun, and the requests number at most MAX_RETRIES for every
\* call.
C30_CallsCountedOnce ==
    /\ [](/\ RecordsDone <= stats.embedding_calls - CallsOfCurrent
          /\ stats.embedding_calls - CallsOfCurrent <= 2 * RecordsDone
          /\ posts <= MAX_RETRIES * stats.embedding_calls
          /\ posts >= stats.embedding_calls
                        - IF pc = "embed" /\ requests = 0 THEN 1 ELSE 0
          /\ which = "desc" => tags_vector # <<>>)
    /\ [][run' = run =>
            /\ pc = "embed" =>
                /\ posts' = posts + 1
                /\ stats' = stats
            /\ stats'.embedding_calls # stats.embedding_calls =>
                /\ stats'.embedding_calls = stats.embedding_calls + 1
                /\ pc \in {"book", "embed_ret"}
                /\ pc' = "embed"
                /\ requests' = 0
            /\ (pc = "embed_ret" /\ which = "tags" /\ emb_ret.kind = "None") =>
                /\ stats'.embedding_calls = stats.embedding_calls
                /\ pc' \in {"book", "batch_result"}
                /\ j' = j + 1]_vars

\* three records are processed: the tag call of the first used up its
\* attempts, the other calls were answered at once; five calls, seven
\* requests
C30_Witness ==
    /\ run = 1
    /\ pc = "report"
    /\ Len(books) = 3
    /\ emb_failed = {0}
    /\ stats.embedding_calls = 5
    /\ posts = MAX_RETRIES + 4

(***************************************************************************)
(* The backoff of get_embedding.                                           *)
(***************************************************************************)
\* C31: within one get_embedding call the backoff sleep happens only
\* between attempts: while the loop goes on, every request made so far
\* failed and was followed by one sleep; when the call returns a vector, no
\* sleep followed the answered request; and when all MAX_RETRIES attempts
\* failed, the call slept exactly MAX_RETRIES - 1 times, none of them after
\* the final attempt.
C31_SleepOnlyBetweenAttempts ==
    /\ pc = "embed" => (sleeps = requests /\ requests < MAX_RETRIES)
    /\ pc = "embed_ret" =>
        IF emb_ret.kind = "value"
        THEN emb_resp = "ok" /\ sleeps = requests - 1
        ELSE /\ emb_resp # "ok"
             /\ requests = MAX_RETRIES
             /\ sleeps = MAX_RETRIES - 1

\* every attempt of a call failed: the call gave up having slept between
\* its attempts only
C31_Witness ==
    /\ pc = "embed_ret"
    /\ emb_ret.kind # "value"
    /\ requests = MAX_RETRIES
    /\ sleeps = MAX_RETRIES - 1
    /\ sleeps > 0

=============================================================================
